---- MODULE Spec2Model ----
(***************************************************************************)
(* A model of rox, an HTTP/1.1 forward proxy serving CONNECT tunnels with  *)
(* optional Basic proxy authentication.                                    *)
(*                                                                         *)
(*   - Text is a sequence of one-character strings, so that splitting,     *)
(*     trimming, case folding and delimiter scans are computed the way the *)
(*     Rust code computes them.                                            *)
(*   - Request::parse / Response::parse run over a byte stream that is     *)
(*     delivered in reads of arbitrary size (SpecParse).                   *)
(*   - handle_connection is a state machine with one action per await      *)
(*     point of the function (Spec).                                       *)
(*   - Proxy::run accepts connections and spawns one handler for each,     *)
(*     and the handlers run interleaved (SpecRun).                         *)
(*   - Headers, the status table and RequestBuilder are values that a      *)
(*     caller drives call by call (SpecLib).                               *)
(***************************************************************************)
EXTENDS Naturals, Integers, Sequences, FiniteSets, TLC

VARIABLES
    args,   \* the shared, immutable configuration (Arc<Args>)
    conn,   \* the handler of the accepted connection, one record per connection
    ps,     \* one run of Request::parse / Response::parse over a stream
    lib,    \* a value of the message model under the calls of a caller
    run     \* the accept loop of Proxy::run: how many accepts succeeded and failed

vars == <<args, conn, ps, lib, run>>

-----------------------------------------------------------------------------
(* Option and Result values *)

None == <<>>
Some(v) == <<v>>
IsSome(o) == o # <<>>
Unwrap(o) == o[1]

Ok(v) == [ok |-> TRUE, v |-> v]
Err(e) == [ok |-> FALSE, e |-> e]

Min(a, b) == IF a <= b THEN a ELSE b

-----------------------------------------------------------------------------
(* Text: sequences of one-character strings *)

CR == "\r"
LF == "\n"
SP == " "
NUL == "NUL"    \* a zero byte of a fresh scratch buffer
BAD == "xFF"    \* a byte that is valid in no UTF-8 sequence

CRLF == <<CR, LF>>
delim == <<CR, LF, CR, LF>>

UpperCase == <<"A","B","C","D","E","F","G","H","I","J","K","L","M",
               "N","O","P","Q","R","S","T","U","V","W","X","Y","Z">>
LowerCase == <<"a","b","c","d","e","f","g","h","i","j","k","l","m",
               "n","o","p","q","r","s","t","u","v","w","x","y","z">>
Digits == <<"0","1","2","3","4","5","6","7","8","9">>

\* The position of ch in the alphabet seq, 0 when it is not in it.
Pos(seq, ch) ==
    IF \E i \in 1..Len(seq) : seq[i] = ch
    THEN CHOOSE i \in 1..Len(seq) : seq[i] = ch
    ELSE 0

\* char::to_lowercase / to_uppercase on the ASCII letters.
LowerChar(ch) == IF Pos(UpperCase, ch) # 0 THEN LowerCase[Pos(UpperCase, ch)] ELSE ch
UpperChar(ch) == IF Pos(LowerCase, ch) # 0 THEN UpperCase[Pos(LowerCase, ch)] ELSE ch
to_lowercase(s) == [i \in 1..Len(s) |-> LowerChar(s[i])]
to_uppercase(s) == [i \in 1..Len(s) |-> UpperChar(s[i])]

\* char::is_whitespace on the characters of the model's alphabet.
IsWhitespace(ch) == ch \in {SP, "\t", CR, LF}

\* The index of the first occurrence of pat in s, 0 when there is none.
Find(s, pat) ==
    LET hits == {i \in 1..(Len(s) + 1 - Len(pat)) : SubSeq(s, i, i + Len(pat) - 1) = pat}
    IN  IF Len(pat) > Len(s) \/ hits = {} THEN 0
        ELSE CHOOSE i \in hits : \A j \in hits : i <= j

Contains(s, pat) == Find(s, pat) # 0

\* slice.windows(delim.len()).any(|win| win == delim)
windows_any(s, pat) == \E i \in 1..(Len(s) + 1 - Len(pat)) : SubSeq(s, i, i + Len(pat) - 1) = pat

starts_with(s, pat) == Len(s) >= Len(pat) /\ SubSeq(s, 1, Len(pat)) = pat

\* A variant of split_once that splits at the last occurrence of pat.
split_once_Last(s, pat) ==
    LET at == {i \in 1..(Len(s) - Len(pat) + 1) : SubSeq(s, i, i + Len(pat) - 1) = pat}
        i == CHOOSE k \in at : \A j \in at : j <= k
    IN  IF at = {} THEN None
        ELSE Some(<<SubSeq(s, 1, i - 1), SubSeq(s, i + Len(pat), Len(s))>>)

\* str::split_once: Some(<<before, after>>) at the first occurrence of pat.
split_once(s, pat) ==
    LET i == Find(s, pat)
    IN  IF i = 0 THEN None
        ELSE Some(<<SubSeq(s, 1, i - 1), SubSeq(s, i + Len(pat), Len(s))>>)

\* str::split: the pieces between all occurrences of pat (one piece for no occurrence).
RECURSIVE split(_, _)
split(s, pat) ==
    LET i == Find(s, pat)
    IN  IF i = 0 THEN <<s>>
        ELSE <<SubSeq(s, 1, i - 1)>> \o split(SubSeq(s, i + Len(pat), Len(s)), pat)

\* str::trim: without leading and trailing whitespace.
trim(s) ==
    LET keep == {i \in 1..Len(s) : ~IsWhitespace(s[i])}
    IN  IF keep = {} THEN <<>>
        ELSE SubSeq(s, CHOOSE i \in keep : \A j \in keep : i <= j,
                       CHOOSE i \in keep : \A j \in keep : i >= j)

\* str::split_whitespace: the maximal runs of non-whitespace characters, in order.
RECURSIVE split_whitespace(_)
split_whitespace(s) ==
    LET t == trim(s)
        ws == {i \in 1..Len(t) : IsWhitespace(t[i])}
        cut == CHOOSE i \in ws : \A j \in ws : i <= j
    IN  IF t = <<>> THEN <<>>
        ELSE IF ws = {} THEN <<t>>
        ELSE <<SubSeq(t, 1, cut - 1)>> \o split_whitespace(SubSeq(t, cut + 1, Len(t)))

\* [T]::join(sep)
RECURSIVE join(_, _)
join(parts, sep) ==
    IF parts = <<>> THEN <<>>
    ELSE IF Len(parts) = 1 THEN parts[1]
    ELSE parts[1] \o sep \o join(Tail(parts), sep)

\* str::from_utf8 succeeds on the bytes (no byte of the model but BAD is invalid).
ValidUtf8(bytes) == \A i \in 1..Len(bytes) : bytes[i] # BAD

\* str::parse::<usize>: an optional '+' and at least one decimal digit.
RECURSIVE DecimalValue(_)
DecimalValue(s) ==
    IF s = <<>> THEN 0
    ELSE 10 * DecimalValue(SubSeq(s, 1, Len(s) - 1)) + (Pos(Digits, s[Len(s)]) - 1)

parse_usize(s) ==
    LET d == IF s # <<>> /\ s[1] = "+" THEN Tail(s) ELSE s
    IN  IF d # <<>> /\ \A i \in 1..Len(d) : Pos(Digits, d[i]) # 0
        THEN Ok(DecimalValue(d))
        ELSE Err("ParseIntError")

\* usize / u16 Display: the decimal digits of n.
RECURSIVE Decimal(_)
Decimal(n) ==
    IF n < 10 THEN <<Digits[n + 1]>>
    ELSE Decimal(n \div 10) \o <<Digits[(n % 10) + 1]>>

-----------------------------------------------------------------------------
(* Status codes: the members of enum StatusCode that the proxy produces *)

Unknown == 999
OK == 200
BadRequest == 400
MethodNotAllowed == 405
ProxyAuthenticationRequired == 407
InternalServerError == 500

-----------------------------------------------------------------------------
(* Headers: a map keyed by the lowercase name, and the keys in first-insertion order *)

HeaderKey_new(s) == [original |-> s, lowercase |-> to_lowercase(s)]

\* PartialEq for HeaderKey
HeaderKey_eq(a, b) == a.lowercase = b.lowercase

Headers_new == [map |-> <<>>, order |-> <<>>]

\* A variant of Headers_get that finds a name only in the casing it was inserted in.
Headers_get_Exact(h, key) ==
    LET k == HeaderKey_new(key)
    IN  IF \E i \in 1..Len(h.order) : h.order[i].original = key
        THEN Some(h.map[k.lowercase]) ELSE None

Headers_get(h, key) ==
    LET k == HeaderKey_new(key)
    IN  IF k.lowercase \in DOMAIN h.map THEN Some(h.map[k.lowercase]) ELSE None

\* A variant of Headers_insert that appends the key to order on every call.
Headers_insert_Push(h, key, value) ==
    LET k == HeaderKey_new(key)
    IN  [map   |-> [x \in (DOMAIN h.map) \cup {k.lowercase} |->
                        IF x = k.lowercase THEN value ELSE h.map[x]],
         order |-> Append(h.order, k)]

\* A variant of Headers_insert that looks for the key in order by its original
\* spelling.
Headers_insert_ExactContains(h, key, value) ==
    LET k == HeaderKey_new(key)
        contains == \E i \in 1..Len(h.order) : h.order[i].original = k.original
    IN  [map   |-> [x \in (DOMAIN h.map) \cup {k.lowercase} |->
                        IF x = k.lowercase THEN value ELSE h.map[x]],
         order |-> IF contains THEN h.order ELSE Append(h.order, k)]

Headers_insert(h, key, value) ==
    LET k == HeaderKey_new(key)
        contains == \E i \in 1..Len(h.order) : HeaderKey_eq(h.order[i], k)
    IN  [map   |-> [x \in (DOMAIN h.map) \cup {k.lowercase} |->
                        IF x = k.lowercase THEN value ELSE h.map[x]],
         order |-> IF contains THEN h.order ELSE Append(h.order, k)]

\* The loop of Headers::parse over the lines not yet handled.
RECURSIVE Headers_parse_lines(_, _)
Headers_parse_lines(lines, h) ==
    IF lines = <<>> THEN Ok(h)
    ELSE LET kv == split_once(lines[1], <<":">>)
         IN  IF kv = None THEN Err(BadRequest)
             ELSE Headers_parse_lines(Tail(lines),
                      Headers_insert(h, Unwrap(kv)[1], trim(Unwrap(kv)[2])))

Headers_parse(headers) == Headers_parse_lines(split(headers, CRLF), Headers_new)

\* Display for Headers: "{key}: {value}\r\n" for each key of order.
RECURSIVE Headers_fmt_from(_, _)
Headers_fmt_from(h, i) ==
    IF i > Len(h.order) THEN <<>>
    ELSE h.order[i].original \o <<":", SP>> \o h.map[h.order[i].lowercase] \o CRLF
         \o Headers_fmt_from(h, i + 1)

Headers_fmt(h) == Headers_fmt_from(h, 1)

-----------------------------------------------------------------------------
(* Method *)

Methods == <<"CONNECT", "GET", "POST", "PUT", "PATCH", "DELETE", "HEAD", "OPTIONS", "TRACE">>

MethodText ==
    <<<<"C","O","N","N","E","C","T">>,
      <<"G","E","T">>,
      <<"P","O","S","T">>,
      <<"P","U","T">>,
      <<"P","A","T","C","H">>,
      <<"D","E","L","E","T","E">>,
      <<"H","E","A","D">>,
      <<"O","P","T","I","O","N","S">>,
      <<"T","R","A","C","E">>>>

Method_parse(method) ==
    IF \E i \in 1..Len(Methods) : MethodText[i] = method
    THEN Some(Methods[CHOOSE i \in 1..Len(Methods) : MethodText[i] = method])
    ELSE None

Method_fmt(m) == MethodText[CHOOSE i \in 1..Len(Methods) : Methods[i] = m]

-----------------------------------------------------------------------------
(* Request *)

Content_Length == <<"C","o","n","t","e","n","t","-","L","e","n","g","t","h">>

\* A variant of Request_parse_head that reports a non-numeric Content-Length as a
\* server error.
Request_parse_head_LengthError(buf) ==
    IF ~ValidUtf8(buf) THEN Err(BadRequest)
    ELSE
    LET hb == split_once(buf, delim)
    IN  IF hb = None THEN Err(BadRequest)
        ELSE
        LET body == Unwrap(hb)[2]
            hh == split_once(Unwrap(hb)[1], CRLF)
        IN  IF hh = None THEN Err(BadRequest)
            ELSE
            LET head == split_whitespace(Unwrap(hh)[1])
                method == IF Len(head) >= 1 THEN Method_parse(head[1]) ELSE None
                headers == Headers_parse(Unwrap(hh)[2])
                len == IF headers.ok THEN Headers_get(headers.v, Content_Length) ELSE None
                content_length == IF len = None THEN Ok(0) ELSE parse_usize(Unwrap(len))
            IN  IF Len(head) < 1 THEN Err(BadRequest)
                ELSE IF method = None THEN Err(MethodNotAllowed)
                ELSE IF Len(head) < 2 THEN Err(BadRequest)
                ELSE IF Len(head) < 3 THEN Err(BadRequest)
                ELSE IF ~headers.ok THEN Err(headers.e)
                ELSE IF ~content_length.ok THEN Err(InternalServerError)
                ELSE Ok([method |-> Unwrap(method), resource |-> head[2],
                         version |-> head[3], headers |-> headers.v, body |-> body,
                         content_length |-> content_length.v])

\* A variant of Request_parse_head that counts the tokens of the start line before
\* it looks at the method.
Request_parse_head_CountFirst(buf) ==
    IF ~ValidUtf8(buf) THEN Err(BadRequest)
    ELSE
    LET hb == split_once(buf, delim)
    IN  IF hb = None THEN Err(BadRequest)
        ELSE
        LET body == Unwrap(hb)[2]
            hh == split_once(Unwrap(hb)[1], CRLF)
        IN  IF hh = None THEN Err(BadRequest)
            ELSE
            LET head == split_whitespace(Unwrap(hh)[1])
                method == IF Len(head) >= 1 THEN Method_parse(head[1]) ELSE None
                headers == Headers_parse(Unwrap(hh)[2])
                len == IF headers.ok THEN Headers_get(headers.v, Content_Length) ELSE None
                content_length == IF len = None THEN Ok(0) ELSE parse_usize(Unwrap(len))
            IN  IF Len(head) < 3 THEN Err(BadRequest)
                ELSE IF method = None THEN Err(MethodNotAllowed)
                ELSE IF ~headers.ok THEN Err(headers.e)
                ELSE IF ~content_length.ok THEN Err(BadRequest)
                ELSE Ok([method |-> Unwrap(method), resource |-> head[2],
                         version |-> head[3], headers |-> headers.v, body |-> body,
                         content_length |-> content_length.v])

\* Request::parse from the end of the header-read loop to the start of the body
\* loop: the accumulated bytes buf are decoded and split, the start line and the
\* headers are parsed and the expected body length is determined.
Request_parse_head(buf) ==
    IF ~ValidUtf8(buf) THEN Err(BadRequest)
    ELSE
    LET hb == split_once(buf, delim)
    IN  IF hb = None THEN Err(BadRequest)
        ELSE
        LET body == Unwrap(hb)[2]
            hh == split_once(Unwrap(hb)[1], CRLF)
        IN  IF hh = None THEN Err(BadRequest)
            ELSE
            LET head == split_whitespace(Unwrap(hh)[1])
                method == IF Len(head) >= 1 THEN Method_parse(head[1]) ELSE None
                headers == Headers_parse(Unwrap(hh)[2])
                len == IF headers.ok THEN Headers_get(headers.v, Content_Length) ELSE None
                content_length == IF len = None THEN Ok(0) ELSE parse_usize(Unwrap(len))
            IN  IF Len(head) < 1 THEN Err(BadRequest)
                ELSE IF method = None THEN Err(MethodNotAllowed)
                ELSE IF Len(head) < 2 THEN Err(BadRequest)
                ELSE IF Len(head) < 3 THEN Err(BadRequest)
                ELSE IF ~headers.ok THEN Err(headers.e)
                ELSE IF ~content_length.ok THEN Err(BadRequest)
                ELSE Ok([method |-> Unwrap(method), resource |-> head[2],
                         version |-> head[3], headers |-> headers.v, body |-> body,
                         content_length |-> content_length.v])

\* Display for Request
Request_fmt(r) ==
    Method_fmt(r.method) \o <<SP>> \o r.resource \o <<SP>> \o r.version \o CRLF
    \o Headers_fmt(r.headers) \o CRLF \o r.body

-----------------------------------------------------------------------------
(* Args *)

\* Args::parse_key_value: the text after the first "=", or Err(s).
parse_key_value(s) ==
    LET kv == split_once(s, <<"=">>)
    IN  IF kv = None THEN Err(s) ELSE Ok(Unwrap(kv)[2])

\* str::parse::<u16>
parse_u16(s) ==
    LET n == parse_usize(s)
    IN  IF n.ok /\ n.v < 65536 THEN n ELSE Err("ParseIntError")

\* The locals of Args::parse_with_iter before the loop.
Args_locals == [port |-> 8080, protocol |-> None, help |-> FALSE, version |-> FALSE]

\* The loop of Args::parse_with_iter over the arguments not yet handled, and the
\* Ok(Self { .. }) after it.
RECURSIVE Args_parse_loop(_, _)
Args_parse_loop(it, a) ==
    IF it = <<>>
    THEN IF a.protocol = None THEN Err("Protocol is required.")
         ELSE Ok([a EXCEPT !.protocol = Unwrap(a.protocol)])
    ELSE LET arg == it[1]
             value == parse_key_value(arg)
             port == IF value.ok THEN parse_u16(value.v) ELSE value
         IN  IF arg \in {<<"-","h">>, <<"-","-","h","e","l","p">>}
             THEN Args_parse_loop(Tail(it), [a EXCEPT !.help = TRUE])
             ELSE IF arg \in {<<"-","v">>, <<"-","-","v","e","r","s","i","o","n">>}
             THEN Args_parse_loop(Tail(it), [a EXCEPT !.version = TRUE])
             ELSE IF starts_with(arg, <<"-","p">>) \/ starts_with(arg, <<"-","-","p","o","r","t">>)
             THEN IF port.ok THEN Args_parse_loop(Tail(it), [a EXCEPT !.port = port.v])
                  ELSE Err(arg)
             ELSE IF starts_with(arg, <<"-","P">>) \/ starts_with(arg, <<"-","-","p","r","o","t","o","c","o","l">>)
             THEN IF ~value.ok THEN value
                  ELSE IF to_lowercase(value.v) = <<"h","t","t","p">>
                  THEN Args_parse_loop(Tail(it), [a EXCEPT !.protocol = Some("HTTP")])
                  ELSE Err("Unknown protocol")
             ELSE Err("Invalid argument")

\* Args::parse_with_iter: the first argument, the program's name, is skipped.
Args_parse_with_iter(it) == Args_parse_loop(Tail(it), Args_locals)

-----------------------------------------------------------------------------
(* RequestBuilder *)

RequestBuilder_new ==
    [method |-> None, resource |-> None, version |-> None, headers |-> None, body |-> None]

RequestBuilder_add_method(b, method) == [b EXCEPT !.method = Some(method)]

RequestBuilder_add_resource(b, resource) == [b EXCEPT !.resource = Some(resource)]

RequestBuilder_add_version(b, version) == [b EXCEPT !.version = Some(version)]

RequestBuilder_add_headers(b, headers) == [b EXCEPT !.headers = Some(headers)]

\* get_or_insert_with(Headers::new) and insert
RequestBuilder_add_header(b, key, value) ==
    [b EXCEPT !.headers =
        Some(Headers_insert(IF @ = None THEN Headers_new ELSE Unwrap(@), key, value))]

RequestBuilder_add_body(b, body) == [b EXCEPT !.body = Some(body)]

\* A variant of RequestBuilder_build that looks for the resource before the method.
RequestBuilder_build_ResourceFirst(b) ==
    IF b.resource = None THEN Err("missing resource")
    ELSE IF b.method = None THEN Err("missing method")
    ELSE Ok([method |-> Unwrap(b.method),
             resource |-> Unwrap(b.resource),
             version |-> IF b.version = None THEN <<"H","T","T","P","/","1",".","1">>
                         ELSE Unwrap(b.version),
             headers |-> IF b.headers = None THEN Headers_new ELSE Unwrap(b.headers),
             body |-> IF b.body = None THEN <<>> ELSE Unwrap(b.body)])

\* build: the fields are taken in the order of the struct expression, and the
\* first ok_or(..)? that finds None returns its message.
RequestBuilder_build(b) ==
    IF b.method = None THEN Err("missing method")
    ELSE IF b.resource = None THEN Err("missing resource")
    ELSE Ok([method |-> Unwrap(b.method),
             resource |-> Unwrap(b.resource),
             version |-> IF b.version = None THEN <<"H","T","T","P","/","1",".","1">>
                         ELSE Unwrap(b.version),
             headers |-> IF b.headers = None THEN Headers_new ELSE Unwrap(b.headers),
             body |-> IF b.body = None THEN <<>> ELSE Unwrap(b.body)])

-----------------------------------------------------------------------------
(* Response *)

\* The members of enum StatusCode other than Unknown, by their discriminant.
StatusCodes ==
    {100, 101, 102, 103, 200, 201, 202, 203, 204, 205, 206, 207,
     208, 226, 300, 301, 302, 303, 304, 305, 306, 307, 308, 400,
     401, 402, 403, 404, 405, 406, 407, 408, 409, 410, 411, 412,
     413, 414, 415, 416, 417, 418, 421, 422, 423, 424, 425, 426,
     428, 429, 431, 451, 500, 501, 502, 503, 504, 505, 506, 507,
     508, 510, 511}

\* The codes that the match of Response::parse_status_code has an arm for.
ParseStatusCodeArms ==
    {100, 101, 102, 103, 200, 201, 202, 203, 204, 205, 206, 207,
     208, 226, 300, 301, 302, 303, 304, 305, 306, 307, 308, 400,
     401, 404, 405, 406, 407, 410, 411, 408, 409, 412, 413, 414,
     415, 416, 417, 418, 421, 422, 423, 424, 425, 426, 428, 429,
     431, 451, 500, 501, 502, 503, 504, 505, 506, 507, 508, 510,
     511}

\* Response::parse_status_code: Some(member) for a string with an arm, None otherwise.
parse_status_code(code) ==
    IF \E n \in ParseStatusCodeArms : Decimal(n) = code
    THEN Some(CHOOSE n \in ParseStatusCodeArms : Decimal(n) = code)
    ELSE None

\* StatusCode::parse: its match has the same arms, and Unknown for every other string.
StatusCode_parse(code) ==
    IF \E n \in ParseStatusCodeArms : Decimal(n) = code
    THEN CHOOSE n \in ParseStatusCodeArms : Decimal(n) = code
    ELSE Unknown

\* The replacement character U+FFFD, three bytes long in UTF-8.
REPLACEMENT == "uFFFD"

\* String::from_utf8_lossy on the bytes of the model.
from_utf8_lossy(bytes) == [i \in 1..Len(bytes) |-> IF bytes[i] = BAD THEN REPLACEMENT ELSE bytes[i]]

\* String::len: the length in bytes.
RECURSIVE ByteLen(_)
ByteLen(s) ==
    IF s = <<>> THEN 0
    ELSE (IF s[1] = REPLACEMENT THEN 3 ELSE 1) + ByteLen(Tail(s))

\* usize::MAX, the expected length of a response body without Content-Length
\* (the largest number of the model checker stands for it).
usize_MAX == 2147483647

\* Response::parse from the end of the header-read loop to the start of the body loop.
Response_parse_head(buf) ==
    LET hb == split_once(from_utf8_lossy(buf), delim)
    IN  IF hb = None THEN Err("Invalid HTTP response")
        ELSE
        LET body == Unwrap(hb)[2]
            hh == split_once(Unwrap(hb)[1], CRLF)
        IN  IF hh = None THEN Err("Invalid HTTP headers in response")
            ELSE
            LET head == split_whitespace(Unwrap(hh)[1])
                headers == Headers_parse(Unwrap(hh)[2])
                len == IF headers.ok THEN Headers_get(headers.v, Content_Length) ELSE None
                content_length == IF len = None THEN Ok(usize_MAX) ELSE parse_usize(Unwrap(len))
            IN  IF Len(head) < 1 THEN Err("Invalid HTTP version in response")
                ELSE IF Len(head) < 2 THEN Err("Invalid HTTP status code in response")
                ELSE IF ~headers.ok THEN Err("Invalid headers")
                ELSE IF ~content_length.ok THEN Err("Error parsing content length")
                ELSE Ok([version |-> head[1], status_code |-> parse_status_code(head[2]),
                         status_message |-> join(SubSeq(head, 3, Len(head)), <<SP>>),
                         headers |-> headers.v, body |-> body,
                         content_length |-> content_length.v])

HTTP11 == <<"H","T","T","P","/","1",".","1">>

\* A variant of Response_fmt that writes the body right after the status line.
Response_fmt_NoHeaders(r) ==
    LET status_code == IF r.status_code # None THEN Unwrap(r.status_code) ELSE 999
    IN  r.version \o <<SP>> \o Decimal(status_code) \o <<SP>> \o r.status_message \o CRLF
        \o CRLF \o r.body

\* A variant of Response_fmt that writes no space before an empty status message.
Response_fmt_NoTrailingSpace(r) ==
    LET status_code == IF r.status_code # None THEN Unwrap(r.status_code) ELSE 999
    IN  r.version \o <<SP>> \o Decimal(status_code)
        \o (IF r.status_message = <<>> THEN <<>> ELSE <<SP>> \o r.status_message) \o CRLF
        \o Headers_fmt(r.headers) \o CRLF \o r.body

\* Display for Response
Response_fmt(r) ==
    LET status_code == IF r.status_code # None THEN Unwrap(r.status_code) ELSE 999
    IN  r.version \o <<SP>> \o Decimal(status_code) \o <<SP>> \o r.status_message \o CRLF
        \o Headers_fmt(r.headers) \o CRLF \o r.body

-----------------------------------------------------------------------------
(* The status registry: StatusCode::get_status_message *)

\* The arms of the match, as <<discriminant, phrase>>.
StatusMessages ==
    <<<<100, <<"C","o","n","t","i","n","u","e">>>>,
      <<101, <<"S","w","i","t","c","h","i","n","g",SP,"P","r","o","t","o","c","o","l","s">>>>,
      <<102, <<"P","r","o","c","e","s","s","i","n","g">>>>,
      <<103, <<"E","a","r","l","y",SP,"H","i","n","t","s">>>>,
      <<200, <<"O","K">>>>,
      <<201, <<"C","r","e","a","t","e","d">>>>,
      <<202, <<"A","c","c","e","p","t","e","d">>>>,
      <<203, <<"N","o","n",SP,"A","u","t","h","o","r","i","t","a","t","i","v","e",SP,"I","n","f","o","r","m","a","t","i","o","n">>>>,
      <<204, <<"N","o",SP,"C","o","n","t","e","n","t">>>>,
      <<205, <<"R","e","s","e","t",SP,"C","o","n","t","e","n","t">>>>,
      <<206, <<"P","a","r","t","i","a","l",SP,"C","o","n","t","e","n","t">>>>,
      <<207, <<"M","u","l","t","i","-","S","t","a","t","u","s">>>>,
      <<208, <<"A","l","r","e","a","d","y",SP,"R","e","p","o","r","t","e","d">>>>,
      <<226, <<"I","M",SP,"U","s","e","d">>>>,
      <<300, <<"M","u","l","t","i","p","l","e",SP,"C","h","o","i","c","e","s">>>>,
      <<301, <<"M","o","v","e","d",SP,"P","e","r","m","a","n","e","n","t","l","y">>>>,
      <<302, <<"F","o","u","n","d">>>>,
      <<303, <<"S","e","e",SP,"O","t","h","e","r">>>>,
      <<304, <<"N","o","t",SP,"M","o","d","i","f","i","e","d">>>>,
      <<305, <<"U","s","e",SP,"P","r","o","x","y">>>>,
      <<306, <<"U","n","u","s","e","d">>>>,
      <<307, <<"T","e","m","p","o","r","a","r","y",SP,"R","e","d","i","r","e","c","t">>>>,
      <<308, <<"P","e","r","m","a","n","e","n","t",SP,"R","e","d","i","r","e","c","t">>>>,
      <<400, <<"B","a","d",SP,"R","e","q","u","e","s","t">>>>,
      <<401, <<"U","n","a","u","t","h","o","r","i","z","e","d">>>>,
      <<402, <<"P","a","y","m","e","n","t",SP,"R","e","q","u","i","r","e","d">>>>,
      <<403, <<"F","o","r","b","i","d","d","e","n">>>>,
      <<404, <<"N","o","t",SP,"F","o","u","n","d">>>>,
      <<405, <<"M","e","t","h","o","d",SP,"N","o","t",SP,"A","l","l","o","w","e","d">>>>,
      <<406, <<"N","o","t",SP,"A","c","c","e","p","t","a","b","l","e">>>>,
      <<407, <<"P","r","o","x","y",SP,"A","u","t","h","e","n","t","i","c","a","t","i","o","n",SP,"R","e","q","u","i","r","e","d">>>>,
      <<408, <<"R","e","q","u","e","s","t",SP,"T","i","m","e","o","u","t">>>>,
      <<409, <<"C","o","n","f","l","i","c","t">>>>,
      <<410, <<"G","o","n","e">>>>,
      <<411, <<"L","e","n","g","t","h",SP,"R","e","q","u","i","r","e","d">>>>,
      <<412, <<"P","r","e","c","o","n","d","i","t","i","o","n",SP,"F","a","i","l","e","d">>>>,
      <<413, <<"C","o","n","t","e","n","t",SP,"T","o","o",SP,"L","a","r","g","e">>>>,
      <<414, <<"U","R","L",SP,"T","o","o",SP,"L","o","n","g">>>>,
      <<415, <<"U","n","s","u","p","p","o","r","t","e","d",SP,"M","e","d","i","a",SP,"T","y","p","e">>>>,
      <<416, <<"R","a","n","g","e",SP,"N","o","t",SP,"S","a","t","i","s","f","i","a","b","l","e">>>>,
      <<417, <<"E","x","p","e","c","t","a","t","i","o","n",SP,"F","a","i","l","e","d">>>>,
      <<418, <<"I","'","m",SP,"a",SP,"t","e","a","p","o","t">>>>,
      <<421, <<"M","i","s","d","i","r","e","c","t","e","d",SP,"R","e","q","u","e","s","t">>>>,
      <<422, <<"U","n","p","r","o","c","e","s","s","a","b","l","e",SP,"C","o","n","t","e","n","t">>>>,
      <<423, <<"L","o","c","k","e","d">>>>,
      <<424, <<"F","a","i","l","e","d",SP,"D","e","p","e","n","d","e","n","c","y">>>>,
      <<425, <<"T","o","o",SP,"E","a","r","l","y">>>>,
      <<426, <<"U","p","g","r","a","d","e",SP,"R","e","q","u","i","r","e","d">>>>,
      <<428, <<"P","r","e","c","o","n","d","i","t","i","o","n",SP,"R","e","q","u","i","r","e","d">>>>,
      <<429, <<"T","o","o",SP,"M","a","n","y",SP,"R","e","q","u","e","s","t","s">>>>,
      <<431, <<"R","e","q","u","e","s","t",SP,"H","e","a","d","e","r",SP,"F","i","e","l","d","s",SP,"T","o","o",SP,"L","a","r","g","e">>>>,
      <<451, <<"U","n","a","v","a","i","l","a","b","l","e",SP,"F","o","r",SP,"L","e","g","a","l",SP,"R","e","a","s","o","n","s">>>>,
      <<500, <<"I","n","t","e","r","n","a","l",SP,"S","e","r","v","e","r",SP,"E","r","r","o","r">>>>,
      <<501, <<"N","o","t",SP,"I","m","p","l","e","m","e","n","t","e","d">>>>,
      <<502, <<"B","a","d",SP,"G","a","t","e","w","a","y">>>>,
      <<503, <<"S","e","r","v","i","c","e",SP,"U","n","a","v","a","i","l","a","b","l","e">>>>,
      <<504, <<"G","a","t","e","w","a","y",SP,"T","i","m","e","o","u","t">>>>,
      <<505, <<"H","T","T","P",SP,"V","e","r","s","i","o","n",SP,"N","o","t",SP,"S","u","p","p","o","r","t","e","d">>>>,
      <<506, <<"V","a","r","i","a","n","t",SP,"A","l","s","o",SP,"N","e","g","o","t","i","a","t","e","s">>>>,
      <<507, <<"I","n","s","u","f","f","i","c","i","e","n","t",SP,"S","t","o","r","a","g","e">>>>,
      <<508, <<"L","o","o","p",SP,"D","e","t","e","c","t","e","d">>>>,
      <<510, <<"N","o","t",SP,"E","x","t","e","n","d","e","d">>>>,
      <<511, <<"N","e","t","w","o","r","k",SP,"A","u","t","h","e","n","t","i","c","a","t","i","o","n",SP,"R","e","q","u","i","r","e","d">>>>,
      <<999, <<"U","n","k","n","o","w","n">>>>>>

get_status_message(code) ==
    IF \E i \in 1..Len(StatusMessages) : StatusMessages[i][1] = code
    THEN StatusMessages[CHOOSE i \in 1..Len(StatusMessages) : StatusMessages[i][1] = code][2]
    ELSE <<"U","n","k","n","o","w","n">>

-----------------------------------------------------------------------------
(* BASE64_STANDARD.encode *)

\* The printable ASCII characters, from code 32 (space) to code 126 (~); the
\* backquote, code 96, is written "grave".
Ascii ==
    <<" ","!","\"","#","$","%","&","'","(",")","*","+",",","-",".","/",
      "0","1","2","3","4","5","6","7","8","9",":",";","<","=",">","?",
      "@","A","B","C","D","E","F","G","H","I","J","K","L","M","N","O",
      "P","Q","R","S","T","U","V","W","X","Y","Z","[","\\","]","^","_",
      "grave","a","b","c","d","e","f","g","h","i","j","k","l","m","n","o",
      "p","q","r","s","t","u","v","w","x","y","z","{","|","}","~">>

AsciiCode(ch) == 31 + Pos(Ascii, ch)

Base64Alphabet ==
    <<"A","B","C","D","E","F","G","H","I","J","K","L","M","N","O","P",
      "Q","R","S","T","U","V","W","X","Y","Z","a","b","c","d","e","f",
      "g","h","i","j","k","l","m","n","o","p","q","r","s","t","u","v",
      "w","x","y","z","0","1","2","3","4","5","6","7","8","9","+","/">>

Base64Char(v) == Base64Alphabet[(v % 64) + 1]

\* Three bytes give four characters; one or two last bytes are padded with '='.
RECURSIVE Base64Codes(_)
Base64Codes(b) ==
    IF b = <<>> THEN <<>>
    ELSE IF Len(b) = 1
    THEN <<Base64Char(b[1] \div 4), Base64Char((b[1] % 4) * 16), "=", "=">>
    ELSE IF Len(b) = 2
    THEN <<Base64Char(b[1] \div 4), Base64Char((b[1] % 4) * 16 + b[2] \div 16),
           Base64Char((b[2] % 16) * 4), "=">>
    ELSE <<Base64Char(b[1] \div 4), Base64Char((b[1] % 4) * 16 + b[2] \div 16),
           Base64Char((b[2] % 16) * 4 + b[3] \div 64), Base64Char(b[3] % 64)>>
         \o Base64Codes(SubSeq(b, 4, Len(b)))

Base64Encode(s) == Base64Codes([i \in 1..Len(s) |-> AsciiCode(s[i])])

-----------------------------------------------------------------------------
(* The streaming parse: Request::parse over a source that delivers its bytes in
   reads of any size.  A parse run is a record:
     src     the bytes of the stream that no read has returned yet
     closed  whether the peer closes the stream after those bytes (a read then
             returns 0); when it does not, a read with no byte left blocks
     tmp     the scratch buffer, which keeps the bytes of earlier reads beyond
             the length of the last one
     buf     the accumulation buffer of the header-read loop
     pc      "header_loop", "parse_head", "body_loop" or "done"
     head    the parsed start line and headers, once pc has passed "parse_head"
     body    the body read so far
     result  the value returned, once pc = "done"
     short   how many reads returned fewer bytes than they could
     io_error  whether a read failed                                         *)

\* The length of the scratch buffer `tmp` ([0u8; 1024] in the source), scaled down.
TmpLen == 64

\* How many reads of one parse may return fewer bytes than they could.
MaxShortReads == 2

\* The scratch buffer of Response::parse is [0u8; 1024 * 4].
ScratchLen(kind) == IF kind = "request" THEN TmpLen ELSE TmpLen * 4

Parse_new(kind, stream, closed) ==
    [kind |-> kind, msg |-> stream, src |-> stream, closed |-> closed,
     tmp |-> [i \in 1..ScratchLen(kind) |-> NUL], buf |-> <<>>, pc |-> "header_loop",
     head |-> None, body |-> <<>>, result |-> None, short |-> 0,
     io_error |-> FALSE]

\* input.read(&mut tmp) returning n > 0: the first n unread bytes overwrite tmp[..n].
Parse_read(p, n) ==
    [p EXCEPT !.tmp = SubSeq(p.src, 1, n) \o SubSeq(p.tmp, n + 1, Len(p.tmp)),
              !.src = SubSeq(p.src, n + 1, Len(p.src)),
              !.short = IF n < Min(Len(p.tmp), Len(p.src)) THEN @ + 1 ELSE @]

\* The sizes a read can return: at most the scratch buffer, at most what is unread.
ReadSizes(p) ==
    {n \in 1..Min(Len(p.tmp), Len(p.src)) :
        n = Min(Len(p.tmp), Len(p.src)) \/ p.short < MaxShortReads}

\* The condition of the header-read loop: `while !tmp.windows(4).any(|win| win == delim)`.
HeaderLoopCondition(p) == ~windows_any(p.tmp, delim)

\* One iteration of the header-read loop whose read returns n > 0 bytes.
Parse_header_read(p, n) ==
    LET q == Parse_read(p, n)
    IN  [q EXCEPT !.buf = p.buf \o SubSeq(q.tmp, 1, n)]

\* The header-read loop ends: its condition is false, or the read returned 0.
Parse_header_exit(p) == [p EXCEPT !.pc = "parse_head"]

\* The header-read loop's read fails: Request::parse returns InternalServerError,
\* Response::parse takes it for a read of 0 bytes (unwrap_or(0)) and leaves the loop.
Parse_header_read_error(p) ==
    IF p.kind = "request"
    THEN [p EXCEPT !.pc = "done", !.result = Some(Err(InternalServerError)), !.io_error = TRUE]
    ELSE [p EXCEPT !.pc = "parse_head", !.io_error = TRUE]

\* From the end of the header-read loop to the start of the body loop.
Parse_head(p) ==
    LET h == IF p.kind = "request" THEN Request_parse_head(p.buf)
             ELSE Response_parse_head(p.buf)
    IN  IF h.ok
        THEN [p EXCEPT !.pc = "body_loop", !.head = Some(h.v), !.body = h.v.body]
        ELSE [p EXCEPT !.pc = "done", !.result = Some(Err(h.e))]

\* The condition of the body loop: `while body.len() < content_length`.
BodyLoopCondition(p) == ByteLen(p.body) < Unwrap(p.head).content_length

\* One iteration of the body loop whose read returns n > 0 bytes.
Parse_body_read(p, n) ==
    LET q == Parse_read(p, n)
    IN  IF ValidUtf8(SubSeq(q.tmp, 1, n))
        THEN [q EXCEPT !.body = p.body \o SubSeq(q.tmp, 1, n)]
        ELSE [q EXCEPT !.pc = "done",
                       !.result = Some(Err(IF p.kind = "request" THEN BadRequest
                                           ELSE "Error parsing response body as utf-8"))]

\* The body loop ends (condition false, or a read returned 0): Ok(Request { .. }),
\* Ok(Response { .. }).
Parse_return(p) ==
    LET h == Unwrap(p.head)
    IN  [p EXCEPT !.pc = "done",
                  !.result = Some(Ok(
                      IF p.kind = "request"
                      THEN [method |-> h.method, resource |-> h.resource,
                            version |-> h.version, headers |-> h.headers, body |-> p.body]
                      ELSE [version |-> h.version, status_code |-> h.status_code,
                            status_message |-> h.status_message, headers |-> h.headers,
                            body |-> p.body]))]

\* The body loop's read fails: Request::parse returns BadRequest, Response::parse
\* takes it for a read of 0 bytes (unwrap_or(0)) and leaves the loop.
Parse_body_read_error(p) ==
    IF p.kind = "request"
    THEN [p EXCEPT !.pc = "done", !.result = Some(Err(BadRequest)), !.io_error = TRUE]
    ELSE [Parse_return(p) EXCEPT !.io_error = TRUE]

\* Display for the message of a parse of this kind.
Message_fmt(kind, m) == IF kind = "request" THEN Request_fmt(m) ELSE Response_fmt(m)

\* A read with no unread byte: returns 0 when the peer has closed, blocks otherwise.
AtEof(p) == p.src = <<>> /\ p.closed
Blocked(p) ==
    /\ p.src = <<>> /\ ~p.closed
    /\ \/ p.pc = "header_loop" /\ HeaderLoopCondition(p)
       \/ p.pc = "body_loop" /\ BodyLoopCondition(p)

\* Request::parse run to its return over a source whose reads return the sizes of
\* sched, in order (-1: the read fails), and then all the bytes they can.  The
\* run stops with pc # "done" where a read blocks for ever.
RECURSIVE Parse_run(_, _)
Parse_run(p, sched) ==
    LET header == p.pc = "header_loop"
        looping == IF header THEN HeaderLoopCondition(p) ELSE BodyLoopCondition(p)
        avail == Min(Len(p.tmp), Len(p.src))
        n == IF sched # <<>> THEN Min(sched[1], avail) ELSE avail
        rest == IF sched # <<>> THEN Tail(sched) ELSE sched
    IN  IF p.pc = "done" THEN p
        ELSE IF p.pc = "parse_head" THEN Parse_run(Parse_head(p), sched)
        ELSE IF ~looping
        THEN Parse_run(IF header THEN Parse_header_exit(p) ELSE Parse_return(p), sched)
        ELSE IF sched # <<>> /\ sched[1] < 0
        THEN Parse_run(IF header THEN Parse_header_read_error(p)
                       ELSE Parse_body_read_error(p), rest)
        ELSE IF p.src = <<>>
        THEN IF p.closed
             THEN Parse_run(IF header THEN Parse_header_exit(p) ELSE Parse_return(p), sched)
             ELSE p
        ELSE Parse_run(IF header THEN Parse_header_read(p, n) ELSE Parse_body_read(p, n), rest)

-----------------------------------------------------------------------------
(* ResponseBuilder *)

ResponseBuilder_new ==
    [version |-> None, status_code |-> None, status_message |-> None,
     headers |-> None, body |-> None]

add_status_code(b, status_code) == [b EXCEPT !.status_code = Some(status_code)]

add_status_message(b, status_message) == [b EXCEPT !.status_message = Some(status_message)]

add_header(b, key, value) ==
    [b EXCEPT !.headers =
        Some(Headers_insert(IF @ = None THEN Headers_new ELSE Unwrap(@), key, value))]

add_body(b, body) == [b EXCEPT !.body = Some(body)]

\* build: the unset fields take their defaults, and a non-empty body without an
\* explicit Content-Length gets one.
build(b) ==
    LET body == IF b.body = None THEN <<>> ELSE Unwrap(b.body)
        given == IF b.headers = None THEN Headers_new ELSE Unwrap(b.headers)
        headers == IF body # <<>> /\ Headers_get(given, Content_Length) = None
                   THEN Headers_insert(given, Content_Length, Decimal(ByteLen(body)))
                   ELSE given
    IN  IF b.status_code = None THEN Err("missing status code")
        ELSE Ok([version |-> IF b.version = None THEN HTTP11 ELSE Unwrap(b.version),
                 status_code |-> b.status_code,
                 status_message |-> IF b.status_message = None
                                    THEN get_status_message(Unwrap(b.status_code))
                                    ELSE Unwrap(b.status_message),
                 headers |-> headers, body |-> body])

-----------------------------------------------------------------------------
(* handle_connection: the responses it builds and the decisions it takes *)

Proxy_Authorization == <<"P","r","o","x","y","-","A","u","t","h","o","r","i","z","a","t","i","o","n">>
Proxy_Authenticate == <<"P","r","o","x","y","-","A","u","t","h","e","n","t","i","c","a","t","e">>
Connection == <<"C","o","n","n","e","c","t","i","o","n">>

\* proxy.rs 54-58: the response to a failed Request::parse.
ParseErrorResponse(status_code) ==
    build(add_header(add_status_code(ResponseBuilder_new, status_code),
                     Connection, <<"c","l","o","s","e">>)).v

\* proxy.rs 80-84: the authentication challenge.
ChallengeResponse ==
    build(add_header(add_status_code(ResponseBuilder_new, ProxyAuthenticationRequired),
                     Proxy_Authenticate, <<"B","a","s","i","c",SP,"r","e","a","l","m","=","\"","r","o","x","\"">>)).v

\* proxy.rs 96-100: the answer to a method other than CONNECT.
MethodNotAllowedResponse ==
    build(add_header(add_status_code(ResponseBuilder_new, MethodNotAllowed),
                     Connection, <<"c","l","o","s","e">>)).v

\* proxy.rs 107-112: the answer to a failed dial, with the error's text as body.
DialFailureResponse(e) ==
    build(add_body(add_header(add_status_code(ResponseBuilder_new, InternalServerError),
                              Connection, <<"c","l","o","s","e">>), e)).v

\* proxy.rs 125-129: the handshake of an established tunnel.
EstablishedResponse ==
    build(add_status_message(add_status_code(ResponseBuilder_new, OK), <<"C","o","n","n","e","c","t","i","o","n",SP,"E","s","t","a","b","l","i","s","h","e","d">>)).v

\* A variant of Authorized that accepts any header beginning with Basic, whatever
\* the token after it.
Authorized_SchemeOnly(user, request) ==
    LET header == Headers_get(request.headers, Proxy_Authorization)
    IN  IF user = None THEN TRUE
        ELSE header # None /\ starts_with(Unwrap(header), <<"B","a","s","i","c">>)

\* A variant of Authorized that, without a credential, still wants the request to
\* carry a Proxy-Authorization header.
Authorized_HeaderWanted(user, request) ==
    LET header == Headers_get(request.headers, Proxy_Authorization)
        auth == IF header # None /\ starts_with(Unwrap(header), <<"B","a","s","i","c">>)
                THEN LET words == split_whitespace(Unwrap(header))
                     IN  IF Len(words) >= 2 THEN Some(words[2]) ELSE None
                ELSE None
    IN  IF user = None THEN header # None
        ELSE auth # None /\ Unwrap(auth) = Base64Encode(Unwrap(user))

\* proxy.rs 67-78: whether the auth loop breaks on this request.  user is
\* args.user; without a credential every request passes.
Authorized(user, request) ==
    LET user_encoded == Base64Encode(Unwrap(user))
        header == Headers_get(request.headers, Proxy_Authorization)
        auth == IF header # None /\ starts_with(Unwrap(header), <<"B","a","s","i","c">>)
                THEN LET words == split_whitespace(Unwrap(header))
                     IN  IF Len(words) >= 2 THEN Some(words[2]) ELSE None
                ELSE None
    IN  IF user = None THEN TRUE
        ELSE auth # None /\ Unwrap(auth) = user_encoded

-----------------------------------------------------------------------------
(* The streams that SpecParse parses *)

\* "GET / H\r\nA: b\r\n\r\n"
Req_OneHeader ==
    <<"G","E","T",SP,"/",SP,"H",CR,LF,"A",":",SP,"b",CR,LF,CR,LF>>
\* "GET / H\r\nA: b\r\nB: c\r\n\r\n"
Req_TwoHeaders ==
    <<"G","E","T",SP,"/",SP,"H",CR,LF,"A",":",SP,"b",CR,LF,"B",":",SP,"c",CR,LF,CR,LF>>
\* "GET / H\r\nb: c\r\nA: b\r\n\r\n"
Req_TwoHeadersRev ==
    <<"G","E","T",SP,"/",SP,"H",CR,LF,"b",":",SP,"c",CR,LF,"A",":",SP,"b",CR,LF,CR,LF>>
\* "PUT / H\r\nContent-Length: 3\r\n\r\nxyz"
Req_Body ==
    <<"P","U","T",SP,"/",SP,"H",CR,LF,"C","o","n","t","e","n","t","-","L","e","n","g","t","h",":",SP,"3",CR,LF,CR,LF,"x","y","z">>

\* "PUT / H\r\nContent-Length: 3\r\n\r\nx": the body ends before its declared length
Req_ShortBody ==
    <<"P","U","T",SP,"/",SP,"H",CR,LF,"C","o","n","t","e","n","t","-","L","e","n","g","t","h",":",SP,"3",CR,LF,CR,LF,"x">>
\* "H 200 OK\r\nA: b\r\n\r\n"
Res_OneHeader ==
    <<"H",SP,"2","0","0",SP,"O","K",CR,LF,"A",":",SP,"b",CR,LF,CR,LF>>
\* "H 200 OK\r\nA: b\r\nB: c\r\n\r\n"
Res_TwoHeaders ==
    <<"H",SP,"2","0","0",SP,"O","K",CR,LF,"A",":",SP,"b",CR,LF,"B",":",SP,"c",CR,LF,CR,LF>>
\* "H 404 Not Found\r\nContent-Length: 3\r\n\r\nxyz"
Res_Body ==
    <<"H",SP,"4","0","4",SP,"N","o","t",SP,"F","o","u","n","d",CR,LF,"C","o","n","t","e","n","t","-","L","e","n","g","t","h",":",SP,"3",CR,LF,CR,LF,"x","y","z">>

\* "PUT / H\r\nContent-Length: 3\r\n\r\nxyzG": a byte of the next message follows the body
Req_BodyThenMore ==
    <<"P","U","T",SP,"/",SP,"H",CR,LF,"C","o","n","t","e","n","t","-","L","e","n","g","t","h",":",SP,"3",CR,LF,CR,LF,"x","y","z","G">>

\* "GET / H\r\nContent-Length: x\r\n\r\n"
Req_BadLength ==
    <<"G","E","T",SP,"/",SP,"H",CR,LF,"C","o","n","t","e","n","t","-","L","e","n","g","t","h",":",SP,"x",CR,LF,CR,LF>>
\* "FOO\r\nA: b\r\n\r\n": an unknown method, and neither target nor version
Req_BadMethodOnly ==
    <<"F","O","O",CR,LF,"A",":",SP,"b",CR,LF,CR,LF>>

\* Requests that Request::parse has to reject.
MalformedRequests ==
    {Req_BadLength, Req_BadMethodOnly,
     \* "GET / H\r\nA: b\r\n": no header delimiter
     <<"G","E","T",SP,"/",SP,"H",CR,LF,"A",":",SP,"b",CR,LF>>,
     \* "GET / H\r\nAb\r\n\r\n": a header line without a colon
     <<"G","E","T",SP,"/",SP,"H",CR,LF,"A","b",CR,LF,CR,LF>>,
     \* "\r\nA: b\r\n\r\n": an empty start line
     <<CR,LF,"A",":",SP,"b",CR,LF,CR,LF>>,
     \* "GET\r\nA: b\r\n\r\n": no target
     <<"G","E","T",CR,LF,"A",":",SP,"b",CR,LF,CR,LF>>,
     \* "GET /\r\nA: b\r\n\r\n": no version
     <<"G","E","T",SP,"/",CR,LF,"A",":",SP,"b",CR,LF,CR,LF>>,
     \* "FOO / H\r\nA: b\r\n\r\n": an unknown method
     <<"F","O","O",SP,"/",SP,"H",CR,LF,"A",":",SP,"b",CR,LF,CR,LF>>}

\* "H 299 X\r\nA: b\r\n\r\n": a status code that no member of StatusCode has
Res_Unknown ==
    <<"H",SP,"2","9","9",SP,"X",CR,LF,"A",":",SP,"b",CR,LF,CR,LF>>
\* "H 200 \r\nA: b\r\n\r\n": nothing after the space that follows the status code
Res_NoMessage ==
    <<"H",SP,"2","0","0",SP,CR,LF,"A",":",SP,"b",CR,LF,CR,LF>>

\* "GET / H\r\nA: b\r\n\r\nG": no Content-Length, and a byte of the next message
\* follows the head
Req_HeadThenMore ==
    <<"G","E","T",SP,"/",SP,"H",CR,LF,"A",":",SP,"b",CR,LF,CR,LF,"G">>
\* "H 200 OK\r\nA: b\r\n\r\nxyz": a body delimited by the end of the stream
Res_BodyToEof ==
    <<"H",SP,"2","0","0",SP,"O","K",CR,LF,"A",":",SP,"b",CR,LF,CR,LF,"x","y","z">>

\* "GET / H\r\n\r\n": what Display for Request writes for empty Headers
Req_NoHeaders ==
    <<"G","E","T",SP,"/",SP,"H",CR,LF,CR,LF>>
\* "H 200 OK\r\n\r\n": what Display for Response writes for empty Headers
Res_NoHeaders ==
    <<"H",SP,"2","0","0",SP,"O","K",CR,LF,CR,LF>>

\* "GET / H\r\nA: <BAD>\r\n\r\n": a header value that is not UTF-8
Req_BadUtf8 ==
    <<"G","E","T",SP,"/",SP,"H",CR,LF,"A",":",SP,BAD,CR,LF,CR,LF>>
\* "H 200 OK\r\nA: <BAD>\r\n\r\n": a header value that is not UTF-8
Res_BadUtf8 ==
    <<"H",SP,"2","0","0",SP,"O","K",CR,LF,"A",":",SP,BAD,CR,LF,CR,LF>>
\* "H 200 OK\r\nA: b\r\n\r\nx<BAD>": a body that is not UTF-8
Res_BadBody ==
    <<"H",SP,"2","0","0",SP,"O","K",CR,LF,"A",":",SP,"b",CR,LF,CR,LF,"x",BAD>>

WellFormedRequests == {Req_OneHeader, Req_TwoHeaders, Req_TwoHeadersRev, Req_Body}
WellFormedResponses == {Res_OneHeader, Res_TwoHeaders, Res_Body}
WellFormed == WellFormedRequests \cup WellFormedResponses

ParseStreams ==
    [request |-> WellFormedRequests \cup {Req_ShortBody, Req_BodyThenMore, Req_HeadThenMore, Req_NoHeaders,
                  Req_BadUtf8}
                 \cup MalformedRequests,
     response |-> WellFormedResponses \cup {Res_Unknown, Res_NoMessage, Res_BodyToEof, Res_NoHeaders,
                   Res_BadUtf8, Res_BadBody}]

\* Proxy::run before its first accept.
Run_new == [accepted |-> 0, failed |-> 0]

\* The caller of the message model is not running.
LibOff == [kind |-> "off"]

\* No parse is running.
ParseOff == [Parse_new("request", <<>>, TRUE) EXCEPT !.pc = "off"]

-----------------------------------------------------------------------------
(* SpecParse: one run of the parser, read by read *)

InitParse ==
    /\ args = [user |-> None]
    /\ conn = <<>>
    /\ lib = LibOff
    /\ run = Run_new
    /\ \E kind \in DOMAIN ParseStreams : \E stream \in ParseStreams[kind] :
       \E closed \in BOOLEAN :
            ps = Parse_new(kind, stream, closed)

ReadHeader ==
    /\ ps.pc = "header_loop" /\ HeaderLoopCondition(ps)
    /\ \E n \in ReadSizes(ps) : ps' = Parse_header_read(ps, n)
    /\ UNCHANGED <<args, conn, lib, run>>

HeaderDelimiterSeen ==
    /\ ps.pc = "header_loop" /\ ~HeaderLoopCondition(ps)
    /\ ps' = Parse_header_exit(ps)
    /\ UNCHANGED <<args, conn, lib, run>>

HeaderEof ==
    /\ ps.pc = "header_loop" /\ HeaderLoopCondition(ps) /\ AtEof(ps)
    /\ ps' = Parse_header_exit(ps)
    /\ UNCHANGED <<args, conn, lib, run>>

HeaderReadError ==
    /\ ps.pc = "header_loop" /\ HeaderLoopCondition(ps)
    /\ ps' = Parse_header_read_error(ps)
    /\ UNCHANGED <<args, conn, lib, run>>

ParseHead ==
    /\ ps.pc = "parse_head"
    /\ ps' = Parse_head(ps)
    /\ UNCHANGED <<args, conn, lib, run>>

ReadBody ==
    /\ ps.pc = "body_loop" /\ BodyLoopCondition(ps)
    /\ \E n \in ReadSizes(ps) : ps' = Parse_body_read(ps, n)
    /\ UNCHANGED <<args, conn, lib, run>>

BodyReadError ==
    /\ ps.pc = "body_loop" /\ BodyLoopCondition(ps)
    /\ ps' = Parse_body_read_error(ps)
    /\ UNCHANGED <<args, conn, lib, run>>

BodyEof ==
    /\ ps.pc = "body_loop" /\ BodyLoopCondition(ps) /\ AtEof(ps)
    /\ ps' = Parse_return(ps)
    /\ UNCHANGED <<args, conn, lib, run>>

BodyComplete ==
    /\ ps.pc = "body_loop" /\ ~BodyLoopCondition(ps)
    /\ ps' = Parse_return(ps)
    /\ UNCHANGED <<args, conn, lib, run>>

NextParse ==
    \/ ReadHeader
    \/ HeaderDelimiterSeen
    \/ HeaderEof
    \/ HeaderReadError
    \/ ParseHead
    \/ ReadBody
    \/ BodyReadError
    \/ BodyEof
    \/ BodyComplete

SpecParse == InitParse /\ [][NextParse]_vars

-----------------------------------------------------------------------------
(* SpecLib: a caller of the message model.  lib is the value it works on, by kind:
     "headers"  a Headers value, with the calls that made it
     "status"   a status code string, with what the two parsers make of it
     "builder"  a RequestBuilder, with the calls made on it and what build returned
     "args"     an argument list, with what Args::parse_with_iter returned for it
     "block"    a header block, with what Headers::parse returned for it
     "off"      no value                                                     *)

\* How many insert calls a Headers value receives.
MaxInserts == 3

\* The names and values a caller inserts.
HeaderNames == {<<"A">>, <<"a">>, <<"A","b">>, <<"a","B">>, <<"B">>}
HeaderValues == {<<"x">>, <<"y">>}

\* The header blocks a caller parses, each with the <<name, value>> pairs of its lines.
HeaderBlocks ==
    {[text |-> <<"H","o","s","t",":",SP,"g",CR,LF,"U","S","E","R","-","a","g","e","n","t",":",SP,"c">>,
      pairs |-> <<<<<<"H","o","s","t">>, <<"g">>>>, <<<<"U","S","E","R","-","a","g","e","n","t">>, <<"c">>>>>>],
     [text |-> <<"A",":",SP,"x",CR,LF,"B",":",SP,"y",CR,LF,"a",":","y",SP>>,
      pairs |-> <<<<<<"A">>, <<"x">>>>, <<<<"B">>, <<"y">>>>, <<<<"a">>, <<"y">>>>>>]}

\* The header blocks whose parse result a caller keeps, failures included: a value
\* with a colon and padded name and value, a line without a colon, the empty
\* block, a name repeated in another casing, and a block ending in CRLF.
ParsedBlocks ==
    {<<"H","o","s","t",":",SP,"g",":","8","0",CR,LF,SP,"B",SP,":",SP,SP,"y",SP>>,
     <<"A",":",SP,"x",CR,LF,"b","o","g","u","s",CR,LF,"B",":",SP,"y">>,
     <<>>,
     <<"A",":","x",CR,LF,"B",":",SP,"y",CR,LF,"a",":","z",":">>,
     <<"A",":",SP,"x",CR,LF>>}

LibBlock_new == [kind |-> "block", text |-> <<>>, parsed |-> None]

\* Headers::parse(text), the result kept whether Ok or Err.
HeadersParseBlock ==
    /\ lib.kind = "block"
    /\ \E text \in ParsedBlocks :
            lib' = [lib EXCEPT !.text = text, !.parsed = Some(Headers_parse(text))]
    /\ UNCHANGED <<args, conn, ps, run>>

\* Headers::new(); inserted lists the <<name, value>> of the insert calls made.
LibHeaders_new == [kind |-> "headers", headers |-> Headers_new, inserted |-> <<>>]

\* headers.insert(key, value)
HeadersInsert ==
    /\ lib.kind = "headers"
    /\ Len(lib.inserted) < MaxInserts
    /\ \E key \in HeaderNames : \E value \in HeaderValues :
            lib' = [lib EXCEPT !.headers = Headers_insert(@, key, value),
                               !.inserted = Append(@, <<key, value>>)]
    /\ UNCHANGED <<args, conn, ps, run>>

\* Headers::parse(text): a new Headers value, built by one insert per line.
HeadersParse ==
    /\ lib.kind = "headers"
    /\ \E b \in HeaderBlocks :
            LET r == Headers_parse(b.text)
            IN  /\ r.ok
                /\ lib' = [lib EXCEPT !.headers = r.v, !.inserted = b.pairs]
    /\ UNCHANGED <<args, conn, ps, run>>

\* The numbers whose decimal string a caller parses as a status code: those of
\* the members of StatusCode, and some of no member.
StatusNumbers == StatusCodes \cup {199, 299, 600, 999}

LibStatus_new == [kind |-> "status", code |-> <<>>, member |-> Unknown, parsed |-> None,
                  emitted |-> <<>>]

\* StatusCode::parse(code) and Response::parse_status_code(code) on the decimal
\* string of a number, and the number that Display for Response then emits.
StatusParse ==
    /\ lib.kind = "status"
    /\ \E n \in StatusNumbers :
            LET code == Decimal(n)
                parsed == parse_status_code(code)
            IN  lib' = [kind |-> "status", code |-> code,
                        member |-> StatusCode_parse(code), parsed |-> parsed,
                        emitted |-> Decimal(IF parsed # None THEN Unwrap(parsed) ELSE 999)]
    /\ UNCHANGED <<args, conn, ps, run>>

\* The most calls made on one builder before build.
MaxCalls == 4

BuilderMethods == {"GET", "CONNECT"}
BuilderTexts == {<<"/">>}
BuilderHeaders == {<<<<"A">>, <<"x">>>>, <<<<"B">>, <<"y">>>>, <<<<"a">>, <<"y">>>>}
\* The Headers values handed to add_headers, each as the inserts that make it.
BuilderHeaderSets == {<<<<<<"C">>, <<"x">>>>>>}

RECURSIVE HeadersOf(_, _)
HeadersOf(pairs, h) ==
    IF pairs = <<>> THEN h
    ELSE HeadersOf(Tail(pairs), Headers_insert(h, pairs[1][1], pairs[1][2]))

LibBuilder_new == [kind |-> "builder", b |-> RequestBuilder_new, calls |-> <<>>, built |-> None]

\* One more call on the builder, recorded with its argument.
Called(f, arg, b) ==
    lib' = [lib EXCEPT !.b = b, !.calls = Append(@, [f |-> f, arg |-> arg])]

BuilderOpen == lib.kind = "builder" /\ lib.built = None /\ Len(lib.calls) < MaxCalls

BuilderAddMethod ==
    /\ BuilderOpen
    /\ \E method \in BuilderMethods :
            Called("add_method", <<method>>, RequestBuilder_add_method(lib.b, method))
    /\ UNCHANGED <<args, conn, ps, run>>

BuilderAddResource ==
    /\ BuilderOpen
    /\ \E resource \in BuilderTexts :
            Called("add_resource", resource, RequestBuilder_add_resource(lib.b, resource))
    /\ UNCHANGED <<args, conn, ps, run>>

BuilderAddVersion ==
    /\ BuilderOpen
    /\ \E version \in {<<"H">>} :
            Called("add_version", version, RequestBuilder_add_version(lib.b, version))
    /\ UNCHANGED <<args, conn, ps, run>>

BuilderAddHeaders ==
    /\ BuilderOpen
    /\ \E pairs \in BuilderHeaderSets :
            Called("add_headers", pairs,
                   RequestBuilder_add_headers(lib.b, HeadersOf(pairs, Headers_new)))
    /\ UNCHANGED <<args, conn, ps, run>>

BuilderAddHeader ==
    /\ BuilderOpen
    /\ \E kv \in BuilderHeaders :
            Called("add_header", kv, RequestBuilder_add_header(lib.b, kv[1], kv[2]))
    /\ UNCHANGED <<args, conn, ps, run>>

BuilderAddBody ==
    /\ BuilderOpen
    /\ \E body \in {<<"z">>} :
            Called("add_body", body, RequestBuilder_add_body(lib.b, body))
    /\ UNCHANGED <<args, conn, ps, run>>

\* build consumes the builder.
BuilderBuild ==
    /\ lib.kind = "builder"
    /\ lib.built = None
    /\ lib' = [lib EXCEPT !.built = Some(RequestBuilder_build(lib.b))]
    /\ UNCHANGED <<args, conn, ps, run>>

\* The flags that Args::parse_with_iter has an arm for, as the tests write them.
Flags ==
    {<<"-","-","h","e","l","p">>, <<"-","h">>,
     <<"-","-","v","e","r","s","i","o","n">>, <<"-","v">>,
     <<"-","-","p","o","r","t","=","9","0","0","0">>,
     <<"-","p","=","7","0","0","0">>,
     <<"-","-","p","r","o","t","o","c","o","l","=","H","T","T","P">>}

\* The argument lists parsed: the program's name alone, with one flag, with the
\* protocol and one more flag, and with a flag that does not parse.
ArgLists ==
    {<<<<"r","o","x">>>>}
    \cup {<<<<"r","o","x">>, f>> : f \in Flags}
    \cup {<<<<"r","o","x">>, <<"-","-","p","r","o","t","o","c","o","l","=","h","t","t","p">>, f>> : f \in Flags}
    \cup {<<<<"r","o","x">>, f>> : f \in {<<"-","-","p","o","r","t","=","x">>, <<"-","p">>, <<"-","-","p","r","o","t","o","c","o","l","=","f","t","p">>, <<"-","-","b","o","g","u","s">>}}

LibArgs_new == [kind |-> "args", argv |-> <<>>, result |-> None]

\* Args::parse_with_iter on one of the argument lists.
ArgsParse ==
    /\ lib.kind = "args"
    /\ \E argv \in ArgLists :
            lib' = [lib EXCEPT !.argv = argv, !.result = Some(Args_parse_with_iter(argv))]
    /\ UNCHANGED <<args, conn, ps, run>>

InitLib ==
    /\ args = [user |-> None]
    /\ conn = <<>>
    /\ ps = ParseOff
    /\ run = Run_new
    /\ lib \in {LibHeaders_new, LibStatus_new, LibBuilder_new, LibArgs_new, LibBlock_new}

NextLib ==
    \/ HeadersInsert
    \/ HeadersParse
    \/ StatusParse
    \/ BuilderAddMethod
    \/ BuilderAddResource
    \/ BuilderAddVersion
    \/ BuilderAddHeaders
    \/ BuilderAddHeader
    \/ BuilderAddBody
    \/ BuilderBuild
    \/ ArgsParse
    \/ HeadersParseBlock

SpecLib == InitLib /\ [][NextLib]_vars

-----------------------------------------------------------------------------
(* Spec: one connection handler, from the accepted socket to its return *)

\* The configured credential "u:p" (args.user), whose Base64 encoding is "dTpw".
Credential == <<"u",":","p">>

\* The text of the error of a failed TcpStream::connect.
DialError == <<"r","e","f","u","s","e","d">>

\* What a client sends for one request.
\* "CONNECT h:1 H\r\nProxy-Authorization: Basic dTpw\r\n\r\n"
Msg_ConnectAuth ==
    <<"C","O","N","N","E","C","T",SP,"h",":","1",SP,"H",CR,LF,"P","r","o","x","y","-","A","u","t","h","o","r","i","z","a","t","i","o","n",":",SP,"B","a","s","i","c",SP,"d","T","p","w",CR,LF,CR,LF>>
\* "CONNECT h:1 H\r\nproxy-authorization: Basic dTpw\r\n\r\n"
Msg_ConnectAuthLower ==
    <<"C","O","N","N","E","C","T",SP,"h",":","1",SP,"H",CR,LF,"p","r","o","x","y","-","a","u","t","h","o","r","i","z","a","t","i","o","n",":",SP,"B","a","s","i","c",SP,"d","T","p","w",CR,LF,CR,LF>>
\* "CONNECT h:1 H\r\nProxy-Authorization: Basicx dTpw\r\n\r\n"
Msg_ConnectBasicx ==
    <<"C","O","N","N","E","C","T",SP,"h",":","1",SP,"H",CR,LF,"P","r","o","x","y","-","A","u","t","h","o","r","i","z","a","t","i","o","n",":",SP,"B","a","s","i","c","x",SP,"d","T","p","w",CR,LF,CR,LF>>
\* "CONNECT h:1 H\r\nA: b\r\n\r\n"
Msg_ConnectNoAuth ==
    <<"C","O","N","N","E","C","T",SP,"h",":","1",SP,"H",CR,LF,"A",":",SP,"b",CR,LF,CR,LF>>
\* "CONNECT h:1 H\r\nProxy-Authorization: Basic u:p\r\n\r\n"
Msg_ConnectPlain ==
    <<"C","O","N","N","E","C","T",SP,"h",":","1",SP,"H",CR,LF,"P","r","o","x","y","-","A","u","t","h","o","r","i","z","a","t","i","o","n",":",SP,"B","a","s","i","c",SP,"u",":","p",CR,LF,CR,LF>>
\* "CONNECT h:1 H\r\nProxy-Authorization: Digest dTpw\r\n\r\n"
Msg_ConnectScheme ==
    <<"C","O","N","N","E","C","T",SP,"h",":","1",SP,"H",CR,LF,"P","r","o","x","y","-","A","u","t","h","o","r","i","z","a","t","i","o","n",":",SP,"D","i","g","e","s","t",SP,"d","T","p","w",CR,LF,CR,LF>>
\* "CONNECT h:1 H\r\nProxy-Authorization: Basic\r\n\r\n"
Msg_ConnectNoToken ==
    <<"C","O","N","N","E","C","T",SP,"h",":","1",SP,"H",CR,LF,"P","r","o","x","y","-","A","u","t","h","o","r","i","z","a","t","i","o","n",":",SP,"B","a","s","i","c",CR,LF,CR,LF>>
\* "GET / H\r\nProxy-Authorization: Basic dTpw\r\n\r\n"
Msg_GetAuth ==
    <<"G","E","T",SP,"/",SP,"H",CR,LF,"P","r","o","x","y","-","A","u","t","h","o","r","i","z","a","t","i","o","n",":",SP,"B","a","s","i","c",SP,"d","T","p","w",CR,LF,CR,LF>>
\* "GET / H\r\nA: b\r\n\r\n"
Msg_GetNoAuth ==
    <<"G","E","T",SP,"/",SP,"H",CR,LF,"A",":",SP,"b",CR,LF,CR,LF>>
\* "FOO / H\r\nA: b\r\n\r\n"
Msg_BadMethod ==
    <<"F","O","O",SP,"/",SP,"H",CR,LF,"A",":",SP,"b",CR,LF,CR,LF>>
\* "GET /\r\nA: b\r\n\r\n"
Msg_NoVersion ==
    <<"G","E","T",SP,"/",CR,LF,"A",":",SP,"b",CR,LF,CR,LF>>

\* "CONNECT h:1 H\r\nProxy-Authorization: Basic dTpw\r\n\r\nd": the first byte
\* for the tunnel follows the request at once
Msg_ConnectAuthThenData ==
    <<"C","O","N","N","E","C","T",SP,"h",":","1",SP,"H",CR,LF,"P","r","o","x","y","-","A","u","t","h","o","r","i","z","a","t","i","o","n",":",SP,"B","a","s","i","c",SP,"d","T","p","w",CR,LF,CR,LF,"d">>

ClientMessages ==
    {Msg_ConnectAuth,
     Msg_ConnectAuthThenData,
     Msg_ConnectAuthLower,
     Msg_ConnectBasicx,
     Msg_ConnectNoAuth,
     Msg_ConnectPlain,
     Msg_ConnectScheme,
     Msg_ConnectNoToken,
     Msg_GetAuth,
     Msg_GetNoAuth,
     Msg_BadMethod,
     Msg_NoVersion}

\* How many requests one handler parses (the auth loop itself has no limit).
MaxRequests == 3

\* How many bytes the relay copies in each direction.
MaxRelay == 2

Conns == {1}

\* The state of a handler at its start.  pc is the await point it stands at:
\*   "parse"        Request::parse(downstream).await, at the top of the auth loop
\*   "parse_blocked" inside Request::parse, in a read that never returns
\*   "write_error", "write_407", "write_405", "write_500", "write_200"
\*                  the write(downstream).await of the response `pending`
\*   "dial"         TcpStream::connect(&request.resource).await
\*   "relay"        copy_bidirectional(downstream, &mut upstream).await
\*   "closed"       the handler has returned and its sockets are dropped
\* request is the request the latest Request::parse returned, nread the number of
\* bytes that parse read and io_error whether one of its reads failed, sent the responses written downstream, log the awaits
\* that have returned (the parses, the writes, the dial and the relay as a whole),
\* inbound the bytes received that no read has returned, up_eof and down_eof
\* whether the relay has met the end of the downstream and of the upstream stream.
Handler_new ==
    [pc |-> "parse", request |-> None, pending |-> None, sent |-> <<>>,
     downstream |-> "open", upstream |-> "none", peer_closed |-> FALSE,
     inbound |-> <<>>, nread |-> 0, io_error |-> FALSE, log |-> <<>>,
     to_upstream |-> <<>>, to_downstream |-> 0, up_eof |-> FALSE, down_eof |-> FALSE]

Event(ev, ok, status) == [ev |-> ev, ok |-> ok, status |-> status]

\* A variant of Handler_return that leaves the upstream socket as it is.
Handler_return_UpstreamLeft(h) ==
    [h EXCEPT !.pc = "closed", !.pending = None, !.downstream = "closed"]

\* The handler returns: the task ends and drops downstream and upstream.
Handler_return(h) ==
    [h EXCEPT !.pc = "closed", !.pending = None, !.downstream = "closed",
              !.upstream = IF @ = "open" THEN "closed" ELSE @]

\* A variant of AfterParseError that answers a failed parse with the challenge
\* and goes on with the loop.
AfterParseError_Challenge(h, status_code) ==
    IF status_code = Unknown
    THEN Handler_return(h)
    ELSE [h EXCEPT !.pc = "write_407", !.pending = Some(ChallengeResponse)]

\* proxy.rs 48-62: Request::parse returned Err(status_code).
AfterParseError(h, status_code) ==
    IF status_code = Unknown
    THEN Handler_return(h)
    ELSE [h EXCEPT !.pc = "write_error", !.pending = Some(ParseErrorResponse(status_code))]

\* A variant of AfterParseOk without the method check: every authorized request
\* goes on to the dial.
AfterParseOk_NoMethodCheck(h, request) ==
    LET g == [h EXCEPT !.request = Some(request)]
    IN  IF ~Authorized(args.user, request)
        THEN [g EXCEPT !.pc = "write_407", !.pending = Some(ChallengeResponse)]
        ELSE [g EXCEPT !.pc = "dial"]

\* proxy.rs 65-104: Request::parse returned Ok(request); the auth check, and
\* after the loop the method check.
AfterParseOk(h, request) ==
    LET g == [h EXCEPT !.request = Some(request)]
    IN  IF ~Authorized(args.user, request)
        THEN [g EXCEPT !.pc = "write_407", !.pending = Some(ChallengeResponse)]
        ELSE IF request.method # "CONNECT"
        THEN [g EXCEPT !.pc = "write_405", !.pending = Some(MethodNotAllowedResponse)]
        ELSE [g EXCEPT !.pc = "dial"]

\* What the client has sent when Request::parse runs, and whether it then closes.
\* A client sends a request after the response to the previous one, so a parse
\* starts with every earlier byte consumed.
ClientInputs(h) ==
    IF h.peer_closed THEN {[msg |-> <<>>, closed |-> TRUE]}
    ELSE [msg : ClientMessages \cup {<<>>}, closed : BOOLEAN]

\* The results of the reads of one parse: all bytes at once, a first read of any
\* shorter size, or a failed read.
Schedules(stream) == {<<>>, <<-1>>} \cup {<<n>> : n \in 1..(Len(stream) - 1)}

\* What one Request::parse of the handler can come to: where it stands (returned,
\* or blocked in a read), its result, the bytes it left unread, and whether a
\* read failed.
\* The tables below are merged with the empty function so that each is a table
\* of values, computed once.
ParseOutcome(p) ==
    [pc |-> p.pc, result |-> p.result, src |-> p.src, io_error |-> p.io_error]

RequestParseOutcomes ==
    [in \in [msg : ClientMessages \cup {<<>>}, closed : BOOLEAN] |->
        {ParseOutcome(Parse_run(Parse_new("request", in.msg, in.closed), sched)) :
            sched \in Schedules(in.msg)}] @@ <<>>

\* The number of Request::parse calls that have returned.
Parses(h) == Len(SelectSeq(h.log, LAMBDA e : e.ev = "parse"))

\* proxy.rs 46: Request::parse(downstream).await, and what follows its return up
\* to the next await, for a client that sends one of inputs and a parse that
\* comes to one of outcomes.
ParseRequestOf(c, inputs, outcomes) ==
    /\ conn[c].pc = "parse"
    /\ Parses(conn[c]) < MaxRequests
    /\ \E in \in inputs :
       \E p \in outcomes[in] :
            LET h == [conn[c] EXCEPT !.inbound = p.src, !.peer_closed = in.closed,
                                     !.nread = Len(in.msg) - Len(p.src),
                                     !.io_error = p.io_error]
                r == Unwrap(p.result)
            IN  conn' = [conn EXCEPT ![c] =
                    IF p.pc # "done"
                    THEN [h EXCEPT !.pc = "parse_blocked"]
                    ELSE IF r.ok
                    THEN AfterParseOk([h EXCEPT !.log = Append(@, Event("parse", TRUE, 0))],
                                      r.v)
                    ELSE AfterParseError(
                             [h EXCEPT !.log = Append(@, Event("parse", FALSE, r.e))],
                             r.e)]
    /\ UNCHANGED <<args, ps, lib, run>>

ParseRequest(c) == ParseRequestOf(c, ClientInputs(conn[c]), RequestParseOutcomes)

\* The write of `pending`: written (ok) or failed, and logged either way.
Written(h, ok) ==
    [h EXCEPT !.sent = IF ok THEN Append(@, Unwrap(h.pending)) ELSE @,
              !.log = Append(@, Event("write", ok, Unwrap(Unwrap(h.pending).status_code))),
              !.pending = None]

\* A variant of WriteError that goes back to the top of the loop instead of
\* returning.
WriteError_Continue(c) ==
    /\ conn[c].pc = "write_error"
    /\ \E ok \in BOOLEAN :
            conn' = [conn EXCEPT ![c] = [Written(@, ok) EXCEPT !.pc = "parse"]]
    /\ UNCHANGED <<args, ps, lib, run>>

\* proxy.rs 54-61: the error response is written, a failure is only logged; return.
WriteError(c) ==
    /\ conn[c].pc = "write_error"
    /\ \E ok \in BOOLEAN :
            conn' = [conn EXCEPT ![c] = Handler_return(Written(@, ok))]
    /\ UNCHANGED <<args, ps, lib, run>>

\* A variant of Write407 that returns after the challenge.
Write407_Return(c) ==
    /\ conn[c].pc = "write_407"
    /\ \E ok \in BOOLEAN :
            conn' = [conn EXCEPT ![c] = Handler_return(Written(@, ok))]
    /\ UNCHANGED <<args, ps, lib, run>>

\* proxy.rs 88-92: the challenge is written, a failure is only logged; the loop
\* goes on to the next Request::parse.
Write407(c) ==
    /\ conn[c].pc = "write_407"
    /\ \E ok \in BOOLEAN :
            conn' = [conn EXCEPT ![c] = [Written(@, ok) EXCEPT !.pc = "parse"]]
    /\ UNCHANGED <<args, ps, lib, run>>

\* A variant of Write405 that goes back to the top of the loop instead of
\* returning.
Write405_Continue(c) ==
    /\ conn[c].pc = "write_405"
    /\ \E ok \in BOOLEAN :
            conn' = [conn EXCEPT ![c] = [Written(@, ok) EXCEPT !.pc = "parse"]]
    /\ UNCHANGED <<args, ps, lib, run>>

\* proxy.rs 95-104: the 405 is written, a failure is only logged; return.
Write405(c) ==
    /\ conn[c].pc = "write_405"
    /\ \E ok \in BOOLEAN :
            conn' = [conn EXCEPT ![c] = Handler_return(Written(@, ok))]
    /\ UNCHANGED <<args, ps, lib, run>>

\* A variant of Dial that goes on to the 200 whether or not the connect succeeded.
Dial_ErrorIgnored(c) ==
    /\ conn[c].pc = "dial"
    /\ \E ok \in BOOLEAN :
            conn' = [conn EXCEPT ![c] =
                [@ EXCEPT !.pc = "write_200", !.upstream = IF ok THEN "open" ELSE "none",
                          !.pending = Some(EstablishedResponse),
                          !.log = Append(@, Event("dial", ok, 0))]]
    /\ UNCHANGED <<args, ps, lib, run>>

\* proxy.rs 106-113: TcpStream::connect(&request.resource).await.
Dial(c) ==
    /\ conn[c].pc = "dial"
    /\ \E ok \in BOOLEAN :
            conn' = [conn EXCEPT ![c] =
                IF ok
                THEN [@ EXCEPT !.pc = "write_200", !.upstream = "open",
                               !.pending = Some(EstablishedResponse),
                               !.log = Append(@, Event("dial", TRUE, 0))]
                ELSE [@ EXCEPT !.pc = "write_500",
                               !.pending = Some(DialFailureResponse(DialError)),
                               !.log = Append(@, Event("dial", FALSE, 0))]]
    /\ UNCHANGED <<args, ps, lib, run>>

\* A variant of Write500 that goes back to the top of the loop instead of
\* returning.
Write500_Continue(c) ==
    /\ conn[c].pc = "write_500"
    /\ \E ok \in BOOLEAN :
            conn' = [conn EXCEPT ![c] = [Written(@, ok) EXCEPT !.pc = "parse"]]
    /\ UNCHANGED <<args, ps, lib, run>>

\* proxy.rs 115-123: the 500 is written, a failure is only logged; return.
Write500(c) ==
    /\ conn[c].pc = "write_500"
    /\ \E ok \in BOOLEAN :
            conn' = [conn EXCEPT ![c] = Handler_return(Written(@, ok))]
    /\ UNCHANGED <<args, ps, lib, run>>

\* A variant of Write200 that starts the relay whether or not the write succeeded.
Write200_FailureIgnored(c) ==
    /\ conn[c].pc = "write_200"
    /\ \E ok \in BOOLEAN :
            conn' = [conn EXCEPT ![c] = [Written(@, ok) EXCEPT !.pc = "relay"]]
    /\ UNCHANGED <<args, ps, lib, run>>

\* proxy.rs 125-135: the 200 is written; a failure makes the handler return.
Write200(c) ==
    /\ conn[c].pc = "write_200"
    /\ \E ok \in BOOLEAN :
            conn' = [conn EXCEPT ![c] =
                IF ok THEN [Written(@, ok) EXCEPT !.pc = "relay"]
                ELSE Handler_return(Written(@, ok))]
    /\ UNCHANGED <<args, ps, lib, run>>

\* proxy.rs 137: copy_bidirectional moves bytes from downstream to upstream: first
\* those received and not yet read, then one more byte of the client.
RelayUp(c) ==
    /\ conn[c].pc = "relay"
    /\ ~conn[c].up_eof
    /\ Len(conn[c].to_upstream) < MaxRelay
    /\ conn' = [conn EXCEPT ![c] =
            LET bytes == IF @.inbound # <<>> THEN @.inbound ELSE <<"t">>
            IN  [@ EXCEPT !.to_upstream = @ \o bytes, !.inbound = <<>>]]
    /\ UNCHANGED <<args, ps, lib, run>>

\* proxy.rs 137: copy_bidirectional moves a byte from upstream to downstream.
RelayDown(c) ==
    /\ conn[c].pc = "relay"
    /\ ~conn[c].down_eof
    /\ conn[c].to_downstream < MaxRelay
    /\ conn' = [conn EXCEPT ![c] =
            [@ EXCEPT !.to_downstream = @ + 1]]
    /\ UNCHANGED <<args, ps, lib, run>>

\* proxy.rs 137: copy_bidirectional reads end-of-stream from downstream: that
\* direction is done (the write side of upstream is shut down), the copy from
\* upstream to downstream goes on.
RelayUpEof(c) ==
    /\ conn[c].pc = "relay"
    /\ ~conn[c].up_eof
    /\ conn' = [conn EXCEPT ![c] = [@ EXCEPT !.up_eof = TRUE]]
    /\ UNCHANGED <<args, ps, lib, run>>

\* proxy.rs 137: copy_bidirectional reads end-of-stream from upstream: that
\* direction is done, the copy from downstream to upstream goes on.
RelayDownEof(c) ==
    /\ conn[c].pc = "relay"
    /\ ~conn[c].down_eof
    /\ conn' = [conn EXCEPT ![c] = [@ EXCEPT !.down_eof = TRUE]]
    /\ UNCHANGED <<args, ps, lib, run>>

\* proxy.rs 137-145: copy_bidirectional returns, Ok when both directions are done
\* and Err on an I/O error in either; the result is logged and the handler returns.
RelayEnd(c) ==
    /\ conn[c].pc = "relay"
    /\ \E ok \in {conn[c].up_eof /\ conn[c].down_eof, FALSE} :
            conn' = [conn EXCEPT ![c] =
                Handler_return([@ EXCEPT !.log = Append(@, Event("relay_end", ok, 0))])]
    /\ UNCHANGED <<args, ps, lib, run>>

\* Proxy::new, and one accepted connection whose handler has been spawned.
Init ==
    /\ args \in {[user |-> None], [user |-> Some(Credential)]}
    /\ conn = [c \in Conns |-> Handler_new]
    /\ ps = ParseOff
    /\ lib = LibOff
    /\ run = [Run_new EXCEPT !.accepted = Cardinality(Conns)]

Next ==
    \E c \in Conns :
        \/ ParseRequest(c)
        \/ WriteError(c)
        \/ Write407(c)
        \/ Write405(c)
        \/ Dial(c)
        \/ Write500(c)
        \/ Write200(c)
        \/ RelayUp(c)
        \/ RelayDown(c)
        \/ RelayUpEof(c)
        \/ RelayDownEof(c)
        \/ RelayEnd(c)

Spec == Init /\ [][Next]_vars

\* Spec with the scheduling of the task: an await of the handler that can return
\* does return.  A read returns once the peer has sent or closed, a write and a
\* connect return done or failed; the end of the relay is left to the peers.
Fairness ==
    \A c \in Conns :
        /\ WF_vars(ParseRequest(c))
        /\ WF_vars(WriteError(c))
        /\ WF_vars(Write407(c))
        /\ WF_vars(Write405(c))
        /\ WF_vars(Dial(c))
        /\ WF_vars(Write500(c))
        /\ WF_vars(Write200(c))

SpecFair == Spec /\ Fairness

-----------------------------------------------------------------------------
(* SpecRun: the accept loop of Proxy::run and the handlers it spawns, interleaved
   await by await.  conn is the sequence of the handlers in the order they were
   spawned. *)

\* The clients that connect to the listener.
Clients == {1, 2}

\* How many accepts fail.
MaxAcceptErrors == 1

\* What the clients of the accepted connections send, each request in one piece.
RunMessages == {Msg_ConnectAuth, Msg_GetAuth, Msg_GetNoAuth}

\* A client sends a request, or nothing and closes, or nothing at all; after a
\* second request it sends nothing more.
RunClientInputs(h) ==
    IF h.peer_closed THEN {[msg |-> <<>>, closed |-> TRUE]}
    ELSE IF Parses(h) >= 2 THEN {[msg |-> <<>>, closed |-> FALSE]}
    ELSE [msg : RunMessages, closed : {FALSE}] \cup [msg : {<<>>}, closed : BOOLEAN]

RunParseOutcomes ==
    [in \in [msg : RunMessages \cup {<<>>}, closed : BOOLEAN] |->
        {ParseOutcome(Parse_run(Parse_new("request", in.msg, in.closed), <<>>))}] @@ <<>>

\* A variant of Accept that waits for the handlers it has spawned to return, as
\* a loop that ran each handler inline would.
Accept_Sequential ==
    /\ run.accepted < Cardinality(Clients)
    /\ \A c \in DOMAIN conn : conn[c].pc = "closed"
    /\ run' = [run EXCEPT !.accepted = @ + 1]
    /\ conn' = Append(conn, Handler_new)
    /\ UNCHANGED <<args, ps, lib>>

\* proxy.rs 28-29, 36-37: listener.accept().await returns Ok((stream, _)); the
\* handler of the stream is spawned with a clone of the Arc of the arguments, and
\* the loop goes back to accept.
Accept ==
    /\ run.accepted < Cardinality(Clients)
    /\ run' = [run EXCEPT !.accepted = @ + 1]
    /\ conn' = Append(conn, Handler_new)
    /\ UNCHANGED <<args, ps, lib>>

\* A variant of AcceptError that goes on to spawn a handler.
AcceptError_Spawn ==
    /\ run.failed < MaxAcceptErrors
    /\ run' = [run EXCEPT !.failed = @ + 1]
    /\ conn' = Append(conn, Handler_new)
    /\ UNCHANGED <<args, ps, lib>>

\* proxy.rs 30-33: listener.accept().await returns Err(e); it is logged and the
\* loop continues.
AcceptError ==
    /\ run.failed < MaxAcceptErrors
    /\ run' = [run EXCEPT !.failed = @ + 1]
    /\ UNCHANGED <<args, conn, ps, lib>>

RunParseRequest(c) == ParseRequestOf(c, RunClientInputs(conn[c]), RunParseOutcomes)

\* The relay of a tunnel that carries one chunk in each direction.
RunRelayUp(c) == conn[c].to_upstream = <<>> /\ RelayUp(c)
RunRelayDown(c) == conn[c].to_downstream = 0 /\ RelayDown(c)

\* One step of the handler c: the await it stands at returns.
HandlerNext(c) ==
    \/ RunParseRequest(c)
    \/ WriteError(c)
    \/ Write407(c)
    \/ Write405(c)
    \/ Dial(c)
    \/ Write500(c)
    \/ Write200(c)
    \/ RunRelayUp(c)
    \/ RunRelayDown(c)
    \/ RelayUpEof(c)
    \/ RelayDownEof(c)
    \/ RelayEnd(c)

\* Proxy::new with a user configured, and the listener bound.
InitRun ==
    /\ args = [user |-> Some(Credential)]
    /\ conn = <<>>
    /\ ps = ParseOff
    /\ lib = LibOff
    /\ run = Run_new

\* The handlers spawned so far.
Spawned(c) == c \in DOMAIN conn

NextRun ==
    \/ Accept
    \/ AcceptError
    \/ \E c \in Clients :
        \/ Spawned(c) /\ RunParseRequest(c)
        \/ Spawned(c) /\ WriteError(c)
        \/ Spawned(c) /\ Write407(c)
        \/ Spawned(c) /\ Write405(c)
        \/ Spawned(c) /\ Dial(c)
        \/ Spawned(c) /\ Write500(c)
        \/ Spawned(c) /\ Write200(c)
        \/ Spawned(c) /\ RunRelayUp(c)
        \/ Spawned(c) /\ RunRelayDown(c)
        \/ Spawned(c) /\ RelayUpEof(c)
        \/ Spawned(c) /\ RelayDownEof(c)
        \/ Spawned(c) /\ RelayEnd(c)

SpecRun == InitRun /\ [][NextRun]_vars

-----------------------------------------------------------------------------
(* Properties of handle_connection (Spec) *)

Last(seq) == seq[Len(seq)]

HasEvent(h, ev) == \E i \in 1..Len(h.log) : h.log[i].ev = ev

\* The response r has the status code and carries the header name: value.
IsResponse(r, status_code, name, value) ==
    /\ r.status_code = Some(status_code)
    /\ r.status_message = get_status_message(status_code)
    /\ Headers_get(r.headers, name) = Some(value)

Close == <<"c","l","o","s","e">>
BasicRealm == <<"B","a","s","i","c",SP,"r","e","a","l","m","=","\"","r","o","x","\"">>

\* The request carries a Proxy-Authorization header that begins with Basic and
\* whose second whitespace-delimited token is the Base64 of the credential.
PresentsCredential(request) ==
    LET name == to_lowercase(Proxy_Authorization)
        value == request.headers.map[name]
        tokens == split_whitespace(value)
    IN  /\ name \in DOMAIN request.headers.map
        /\ Len(value) >= 5 /\ SubSeq(value, 1, 5) = <<"B","a","s","i","c">>
        /\ Len(tokens) >= 2
        /\ tokens[2] = Base64Encode(Unwrap(args.user))

\* The request passes the auth step: no credential is configured, or it presents it.
PassesAuth(request) == args.user = None \/ PresentsCredential(request)

\* No byte has been relayed and no upstream connection was ever attempted.
NeverDialed(h) ==
    /\ h.upstream = "none" /\ ~HasEvent(h, "dial") /\ ~HasEvent(h, "relay_end")
    /\ h.pc \notin {"dial", "write_200", "write_500", "relay"}
    /\ h.to_upstream = <<>> /\ h.to_downstream = 0

\* C1: with a credential configured, a handler reaches the upstream dial (stands
\* at it, has attempted it, or holds an upstream connection) only when the request
\* it has just parsed on this connection presents the credential: a
\* Proxy-Authorization header beginning with Basic whose second token is
\* Base64(user:pass).
C1_DialOnlyWithCredential ==
    \A c \in Conns :
        (/\ args.user # None
         /\ \/ conn[c].pc \in {"dial", "write_200", "write_500", "relay"}
            \/ conn[c].upstream # "none"
            \/ HasEvent(conn[c], "dial"))
        => (conn[c].request # None /\ PresentsCredential(Unwrap(conn[c].request)))

\* A handler with a credential configured has dialed upstream successfully.
C1_Witness ==
    \E c \in Conns : args.user # None /\ conn[c].pc = "write_200" /\ conn[c].upstream = "open"

\* Request::parse has just returned Ok in this step of handler c.
ParseReturnedOk(c) ==
    /\ conn[c].pc = "parse"
    /\ Len(conn'[c].log) = Len(conn[c].log) + 1
    /\ Last(conn'[c].log) = Event("parse", TRUE, 0)

C2_Step(c) ==
    /\ (args.user # None /\ ParseReturnedOk(c) /\ ~PresentsCredential(Unwrap(conn'[c].request)))
        => /\ conn'[c].pc = "write_407"
           /\ conn'[c].pending # None
           /\ IsResponse(Unwrap(conn'[c].pending), ProxyAuthenticationRequired,
                         Proxy_Authenticate, BasicRealm)
           /\ conn'[c].sent = conn[c].sent
           /\ conn'[c].downstream = "open"
    /\ (conn[c].pc = "write_407" /\ conn'[c] # conn[c])
        => /\ conn'[c].pc = "parse"
           /\ conn'[c].pending = None
           /\ conn'[c].downstream = "open" /\ conn'[c].upstream = "none"
           /\ Len(conn'[c].log) = Len(conn[c].log) + 1
           /\ Last(conn'[c].log).ev = "write"
           /\ Last(conn'[c].log).status = ProxyAuthenticationRequired
           /\ conn'[c].sent = IF Last(conn'[c].log).ok
                               THEN Append(conn[c].sent, Unwrap(conn[c].pending))
                               ELSE conn[c].sent
    /\ (/\ args.user # None /\ ParseReturnedOk(c)
        /\ PresentsCredential(Unwrap(conn'[c].request))
        /\ Unwrap(conn'[c].request).method = "CONNECT")
        => conn'[c].pc = "dial"

\* C2: with a credential configured, a parsed request that fails the auth check
\* puts the handler at the write of one 407 carrying Proxy-Authenticate: Basic
\* realm="rox"; that write, done or failed, is the only write for the request and
\* leaves the handler waiting for the next request with the connection open; and
\* a parsed CONNECT that presents the credential takes the handler to the dial,
\* however many challenges went before.
C2_ChallengeThenRetry == [][\A c \in Conns : C2_Step(c)]_vars

\* Two challenges have been written, and the third request has reached the dial.
C2_Witness ==
    \E c \in Conns :
        /\ conn[c].pc = "dial"
        /\ Len(conn[c].sent) = 2
        /\ \A i \in 1..2 : conn[c].sent[i].status_code = Some(ProxyAuthenticationRequired)

\* C3: the 200 is written only right after a successful dial; the relay runs, and
\* bytes move, only after the 200 has been written successfully; and a failed write
\* of the 200 is the handler's last step, with no byte relayed in either direction.
C3_EstablishedThenRelay ==
    \A c \in Conns :
        LET h == conn[c]
        IN  /\ \A i \in 1..Len(h.log) :
                (h.log[i].ev = "write" /\ h.log[i].status = OK)
                    => (i > 1 /\ h.log[i - 1] = Event("dial", TRUE, 0))
            /\ h.pc = "write_200" => (Last(h.log) = Event("dial", TRUE, 0) /\ h.upstream = "open")
            /\ (\/ h.pc = "relay" \/ HasEvent(h, "relay_end")
                \/ h.to_upstream # <<>> \/ h.to_downstream > 0)
                => (\E i \in 1..Len(h.log) : h.log[i] = Event("write", TRUE, OK))
            /\ \A i \in 1..Len(h.log) :
                h.log[i] = Event("write", FALSE, OK)
                    => /\ i = Len(h.log) /\ h.pc = "closed"
                       /\ h.to_upstream = <<>> /\ h.to_downstream = 0

\* The relay has moved bytes in both directions after the 200.
C3_Witness ==
    \E c \in Conns :
        /\ conn[c].pc = "relay" /\ conn[c].to_upstream # <<>> /\ conn[c].to_downstream > 0
        /\ Last(conn[c].sent).status_code = Some(OK)

\* C4: when the request that passed the auth step has a method other than
\* CONNECT, the handler stands at the write of a 405 with Connection: close, or
\* has returned right after that write; it has never dialed and relays nothing.
C4_MethodNotAllowed ==
    \A c \in Conns :
        LET h == conn[c]
        IN  (/\ h.request # None /\ PassesAuth(Unwrap(h.request))
             /\ Unwrap(h.request).method # "CONNECT")
            => /\ h.pc \in {"write_405", "closed"}
               /\ h.pc = "write_405"
                    => (h.pending # None
                        /\ IsResponse(Unwrap(h.pending), MethodNotAllowed, Connection, Close))
               /\ h.pc = "closed"
                    => /\ Last(h.log).ev = "write" /\ Last(h.log).status = MethodNotAllowed
                       /\ h.downstream = "closed"
                       /\ Last(h.log).ok
                            => IsResponse(Last(h.sent), MethodNotAllowed, Connection, Close)
               /\ NeverDialed(h)

\* A GET that presented the configured credential was answered with the 405.
C4_Witness ==
    \E c \in Conns :
        /\ args.user # None /\ conn[c].pc = "closed"
        /\ conn[c].request # None /\ Unwrap(conn[c].request).method = "GET"
        /\ conn[c].sent # <<>>
        /\ Last(conn[c].sent).status_code = Some(MethodNotAllowed)

\* C5: after a failed dial the handler stands at the write of a 500 with
\* Connection: close and the error text as body, or has returned right after that
\* write; it never writes a 200, holds no upstream connection and relays nothing.
C5_DialFailure ==
    \A c \in Conns :
        LET h == conn[c]
            IsDialFailure(r) ==
                /\ IsResponse(r, InternalServerError, Connection, Close)
                /\ r.body = DialError
        IN  \A i \in 1..Len(h.log) :
                h.log[i] = Event("dial", FALSE, 0)
                => /\ \/ /\ i = Len(h.log) /\ h.pc = "write_500"
                         /\ h.pending # None /\ IsDialFailure(Unwrap(h.pending))
                      \/ /\ i = Len(h.log) - 1 /\ h.pc = "closed"
                         /\ h.downstream = "closed"
                         /\ Last(h.log).ev = "write"
                         /\ Last(h.log).status = InternalServerError
                         /\ Last(h.log).ok => IsDialFailure(Last(h.sent))
                   /\ \A j \in 1..Len(h.log) : ~(h.log[j].ev = "write" /\ h.log[j].status = OK)
                   /\ \A j \in 1..Len(h.sent) : h.sent[j].status_code # Some(OK)
                   /\ h.upstream = "none" /\ ~HasEvent(h, "relay_end")
                   /\ h.to_upstream = <<>> /\ h.to_downstream = 0

\* The 500 with the error text was written after a failed dial.
C5_Witness ==
    \E c \in Conns :
        /\ conn[c].pc = "closed" /\ HasEvent(conn[c], "dial")
        /\ conn[c].sent # <<>>
        /\ Last(conn[c].sent).status_code = Some(InternalServerError)
        /\ Last(conn[c].sent).body = DialError

\* The latest Request::parse of handler h met the end of the stream at its first
\* read: the peer had closed without sending a byte.
CleanClose(h) == h.nread = 0 /\ h.peer_closed /\ ~h.io_error

\* C6: when the peer closes before sending any byte, so that the first read of
\* the first Request::parse returns 0 bytes, the handler writes no response: none
\* is pending, none was written, no write was attempted.
C6_SilentOnCleanClose ==
    \A c \in Conns :
        LET h == conn[c]
        IN  (Parses(h) = 1 /\ CleanClose(h))
            => (h.pending = None /\ h.sent = <<>> /\ ~HasEvent(h, "write"))

\* C7: after a Request::parse that failed otherwise than by a clean close, the
\* handler stands at the write of the response for the returned status, with
\* Connection: close, or has returned right after that write; the failed parse is
\* the last one, and the connection never dials.
C7_ParseFailure ==
    \A c \in Conns :
        LET h == conn[c]
        IN  \A i \in 1..Len(h.log) :
                (h.log[i].ev = "parse" /\ ~h.log[i].ok /\ ~CleanClose(h))
                => /\ \/ /\ i = Len(h.log) /\ h.pc = "write_error"
                         /\ h.pending # None
                         /\ IsResponse(Unwrap(h.pending), h.log[i].status, Connection, Close)
                      \/ /\ i = Len(h.log) - 1 /\ h.pc = "closed"
                         /\ h.downstream = "closed"
                         /\ Last(h.log).ev = "write"
                         /\ Last(h.log).status = h.log[i].status
                         /\ Last(h.log).ok
                              => IsResponse(Last(h.sent), h.log[i].status, Connection, Close)
                   /\ NeverDialed(h)

\* A request that could not be parsed was answered with a 400; its bytes had arrived.
C7_Witness ==
    \E c \in Conns :
        /\ conn[c].pc = "closed" /\ conn[c].nread > 0
        /\ conn[c].log[Len(conn[c].log) - 1] = Event("parse", FALSE, BadRequest)
        /\ conn[c].sent # <<>>
        /\ Last(conn[c].sent).status_code = Some(BadRequest)

\* C8: a Request::parse begins only with no response pending, as the handler's
\* first step or right after the write (done or failed) of the 407 that answers
\* the request parsed before it; once the handler has dialed, or has attempted
\* the write of any response but a 407, it parses no further request.
C8_Sequential ==
    \A c \in Conns :
        LET h == conn[c]
            Resolved(i) ==
                /\ i >= 2
                /\ h.log[i].ev = "write" /\ h.log[i].status = ProxyAuthenticationRequired
                /\ h.log[i - 1] = Event("parse", TRUE, 0)
        IN  /\ h.pc \in {"parse", "parse_blocked"}
                => (h.pending = None /\ (h.log = <<>> \/ Resolved(Len(h.log))))
            /\ \A i \in 2..Len(h.log) : h.log[i].ev = "parse" => Resolved(i - 1)
            /\ \A i \in 1..Len(h.log) : \A j \in (i + 1)..Len(h.log) :
                (\/ h.log[i].ev \in {"dial", "relay_end"}
                 \/ h.log[i].ev = "write" /\ h.log[i].status # ProxyAuthenticationRequired)
                    => h.log[j].ev # "parse"

\* Three requests were parsed one after the other and the last became a tunnel.
C8_Witness ==
    \E c \in Conns : Parses(conn[c]) = 3 /\ conn[c].pc = "relay"

\* The head of a serialized message: its bytes up to the header delimiter.
WireHead(wire) == Unwrap(split_once(wire, delim))[1]

C22_AbandonAfterFailedWrite ==
    \A c \in Conns : \A i \in 1..Len(conn[c].log) :
        (conn[c].log[i].ev = "write" /\ ~conn[c].log[i].ok)
            => i = Len(conn[c].log) /\ conn[c].pc = "closed"

\* C25: once the relay has met the end of the downstream or of the upstream
\* stream, no further byte is relayed in either direction.
C25_RelayStopsAtEof ==
    [][\A c \in Conns :
          (conn[c].pc = "relay" /\ (conn[c].up_eof \/ conn[c].down_eof))
              => /\ conn'[c].to_upstream = conn[c].to_upstream
                 /\ conn'[c].to_downstream = conn[c].to_downstream]_vars

\* The handler has not written a 407 and is not about to.
No407(h) ==
    /\ h.pc # "write_407"
    /\ h.pending # None => Unwrap(h.pending).status_code # Some(ProxyAuthenticationRequired)
    /\ \A i \in 1..Len(h.sent) : h.sent[i].status_code # Some(ProxyAuthenticationRequired)
    /\ \A i \in 1..Len(h.log) : h.log[i].status # ProxyAuthenticationRequired

\* C32: without a credential the handler never writes a 407, Request::parse
\* returns at most once on a connection and exactly once before the handler
\* returns, and a request it returned takes the handler to the 405 or to the
\* dial by its method alone, whatever Proxy-Authorization header it carries.
C32_NoCredential ==
    /\ [](\A c \in Conns :
            args.user = None
            => /\ No407(conn[c])
               /\ Parses(conn[c]) <= 1
               /\ conn[c].pc \notin {"parse", "parse_blocked"} => Parses(conn[c]) = 1)
    /\ [][\A c \in Conns :
            (args.user = None /\ ParseReturnedOk(c))
            => conn'[c].pc = IF Unwrap(conn'[c].request).method = "CONNECT"
                             THEN "dial" ELSE "write_405"]_vars

\* Without a credential, a CONNECT whose Proxy-Authorization header holds a
\* token that is the Base64 of nothing has reached the relay.
C32_Witness ==
    \E c \in Conns :
        /\ args.user = None
        /\ conn[c].pc = "relay"
        /\ Headers_get(Unwrap(conn[c].request).headers, Proxy_Authorization)
                = Some(<<"B","a","s","i","c",SP,"u",":","p">>)

\* C33: with a credential configured, every write of a 405, done or failed,
\* follows at once a Request::parse that returned Ok with a request presenting
\* the credential; no 405 answers a request that has not passed the auth check.
C33_AuthBeforeMethod ==
    \A c \in Conns :
        args.user # None
        => \A i \in 1..Len(conn[c].log) :
              (conn[c].log[i].ev = "write" /\ conn[c].log[i].status = MethodNotAllowed)
              => /\ i > 1
                 /\ conn[c].log[i - 1] = Event("parse", TRUE, 0)
                 /\ conn[c].request # None
                 /\ PresentsCredential(Unwrap(conn[c].request))

\* C34: on a connection, a write of a response other than the 407, done or
\* failed, is the last write of a response: no write of any response, 407
\* included, comes after it, so at most one such response is written.
C34_OneFinalResponse ==
    \A c \in Conns :
        \A i, j \in 1..Len(conn[c].log) :
            (/\ i < j
             /\ conn[c].log[i].ev = "write"
             /\ conn[c].log[i].status # ProxyAuthenticationRequired)
            => conn[c].log[j].ev # "write"

\* Two challenges and then a 500 were written, and the handler has returned.
C34_Witness ==
    \E c \in Conns :
        /\ conn[c].pc = "closed"
        /\ Len(conn[c].sent) = 3
        /\ conn[c].sent[1].status_code = Some(ProxyAuthenticationRequired)
        /\ conn[c].sent[2].status_code = Some(ProxyAuthenticationRequired)
        /\ conn[c].sent[3].status_code = Some(InternalServerError)

\* C35: what the relay has written upstream begins with the bytes that the
\* client sent after the CRLFCRLF of the CONNECT request and that
\* Request::parse read along with it (request.body).
C35_TunnelBytesForwarded ==
    \A c \in Conns :
        (conn[c].pc = "relay" /\ conn[c].to_upstream # <<>>)
        => LET body == Unwrap(conn[c].request).body
           IN  /\ Len(body) <= Len(conn[c].to_upstream)
               /\ SubSeq(conn[c].to_upstream, 1, Len(body)) = body

\* The handler stands in its auth loop, at Request::parse or at the write of a
\* challenge, the latest read of the downstream socket having met its end, and
\* the model follows one more request.
LoopAtEof(h) ==
    /\ h.pc \in {"parse", "write_407"}
    /\ h.peer_closed
    /\ Parses(h) < MaxRequests

\* C38: a handler in its auth loop whose peer has closed the downstream socket
\* returns; the one Request::parse that it still starts does not lead back into
\* the loop, to no further challenge and no further parse.
C38_EofTerminates ==
    /\ \A c \in Conns : LoopAtEof(conn[c]) ~> conn[c].pc = "closed"
    /\ [][\A c \in Conns :
            (conn[c].pc = "parse" /\ conn[c].peer_closed /\ conn'[c] # conn[c])
            => conn'[c].pc \in {"write_error", "closed"}]_vars

\* A request without the credential came with the close of the peer: it was
\* challenged, the next parse failed, and the handler has returned after two
\* parses.
C38_Witness ==
    \E c \in Conns :
        /\ conn[c].pc = "closed"
        /\ conn[c].peer_closed
        /\ Parses(conn[c]) = 2
        /\ conn[c].log[1] = Event("parse", TRUE, 0)
        /\ conn[c].log[2].ev = "write" /\ conn[c].log[2].status = ProxyAuthenticationRequired
        /\ conn[c].log[3].ev = "parse" /\ ~conn[c].log[3].ok

-----------------------------------------------------------------------------
(* Properties of Proxy::run (SpecRun) *)

\* The handler waits in an await that may never return: a read of Request::parse
\* with nothing to read, the dial, or the relay.
Waiting(h) == h.pc \in {"parse_blocked", "dial", "relay"}

\* The handler stands at an await that returns whatever its client does: a
\* write, the dial or the relay.
CanStep(h) == h.pc \notin {"closed", "parse", "parse_blocked"}

\* While a handler waits, the accept loop can accept the next connection and
\* every other handler that has a step left can take it.
NoBlocking ==
    \A c \in DOMAIN conn :
        Waiting(conn[c])
            => /\ run.accepted < Cardinality(Clients) => ENABLED Accept
               /\ \A d \in DOMAIN conn \ {c} : CanStep(conn[d]) => ENABLED HandlerNext(d)

\* A step changes the state of at most one handler, and never the configuration.
NoInterference ==
    /\ args' = args
    /\ \A c, d \in DOMAIN conn : c # d => (conn'[c] = conn[c] \/ conn'[d] = conn[d])

\* C23: under every interleaving of the handlers, a step of one handler leaves
\* every other handler and the shared configuration unchanged, and a handler that
\* waits (in a read, in the dial or in the relay) keeps neither the accept loop
\* nor another handler from taking its next step.
C23_Interleaving == []NoBlocking /\ [][NoInterference]_vars

\* The first handler is blocked in its first read while the second relays.
C23_Witness ==
    /\ Len(conn) = 2
    /\ conn[1].pc = "parse_blocked" /\ conn[1].log = <<>>
    /\ conn[2].pc = "relay" /\ conn[2].to_downstream > 0

\* C24: the accept loop never stops: whatever accepts have failed and whatever
\* the handlers have come to, the listener can accept the next connection and an
\* accept can fail again; and there is exactly one handler for each accept that
\* succeeded, none for one that failed.
C24_AcceptLoop ==
    /\ Len(conn) = run.accepted
    /\ run.accepted < Cardinality(Clients) => ENABLED Accept
    /\ run.failed < MaxAcceptErrors => ENABLED AcceptError

\* An accept has failed and the first handler has ended on a failed dial and a
\* failed write, and the second connection was accepted and handled all the same.
C24_Witness ==
    /\ run.failed > 0 /\ run.accepted = 2 /\ Len(conn) = 2
    /\ conn[1].pc = "closed"
    /\ HasEvent(conn[1], "dial") /\ conn[1].upstream = "none"
    /\ ~Last(conn[1].log).ok
    /\ conn[2].pc = "relay"

\* The sockets of a handler and the bytes that went through them.
Sockets(h) == <<h.downstream, h.upstream, h.sent, h.inbound, h.to_upstream, h.to_downstream>>

\* The handler is where it was: it has taken no step.
Idle(c) == conn'[c].pc = conn[c].pc /\ conn'[c].log = conn[c].log

\* A step in which the sockets of handler c are used is a step of handler c and
\* of no other handler.
OwnSockets ==
    \A c \in DOMAIN conn :
        Sockets(conn'[c]) # Sockets(conn[c])
            => \A d \in DOMAIN conn \ {c} : Idle(d) /\ Sockets(conn'[d]) = Sockets(conn[d])

\* A handler that has returned holds no open socket, and an upstream socket is
\* open only between the dial and the return.
Released ==
    \A c \in DOMAIN conn :
        /\ conn[c].pc = "closed"
            => conn[c].downstream = "closed" /\ conn[c].upstream \in {"none", "closed"}
        /\ conn[c].pc # "closed" => conn[c].downstream = "open"
        /\ conn[c].upstream = "open" => conn[c].pc \in {"write_200", "relay"}

\* C26: a handler that has terminated, by whichever exit path, holds neither its
\* downstream socket nor its upstream socket open, and the sockets of a handler
\* are used in the steps of that handler only.
C26_SocketsReleased == []Released /\ [][OwnSockets]_vars

\* Both handlers have returned, the first after relaying through an upstream
\* socket it had dialed, the second on a failed dial.
C26_Witness ==
    /\ Len(conn) = 2
    /\ conn[1].pc = "closed" /\ conn[1].upstream = "closed"
    /\ HasEvent(conn[1], "relay_end") /\ conn[1].to_downstream > 0
    /\ conn[2].pc = "closed" /\ conn[2].upstream = "none"
    /\ HasEvent(conn[2], "dial")

-----------------------------------------------------------------------------
(* Properties of Request::parse and Response::parse (SpecParse) *)

\* C9: while the parse stands in its header-read loop, the loop condition is
\* false, so that no further read is issued, as soon as the accumulated bytes
\* contain CRLFCRLF.
C9_StopsAtDelimiter ==
    (ps.pc = "header_loop" /\ Contains(ps.buf, delim)) => ~HeaderLoopCondition(ps)

\* C10: once the parse of a well-formed message has returned, none of its reads
\* having failed, it has returned Ok and the message it parsed formats back to
\* the bytes of the stream, whatever sizes the reads had.
C10_RoundTrip ==
    (ps.pc = "done" /\ ps.msg \in WellFormed /\ ~ps.io_error)
        => /\ Unwrap(ps.result).ok
           /\ Message_fmt(ps.kind, Unwrap(ps.result).v) = ps.msg

\* The parse has returned and none of its reads had failed.
Returned(kind) == ps.pc = "done" /\ ps.kind = kind /\ ~ps.io_error

\* The bytes of a stream after its header delimiter.
BodyOf(stream) == Unwrap(split_once(stream, delim))[2]

\* C11: the parse of a request that declares Content-Length 3, whatever sizes the
\* reads had, returns Ok with the body bytes of the stream: all three when the
\* stream holds them, the one there is when the stream ended after it.
C11_BodyByLength ==
    (Returned("request") /\ ps.msg \in {Req_Body, Req_ShortBody})
        => /\ Unwrap(ps.result).ok
           /\ Unwrap(ps.result).v.body = BodyOf(ps.msg)

\* C12: the body of every request that Request::parse returns with a
\* Content-Length header is at most as long as the header declares, whatever
\* sizes the reads had and whether or not further bytes follow the message.
C12_BodyBounded ==
    (ps.pc = "done" /\ ps.kind = "request" /\ Unwrap(ps.result).ok)
        => LET r == Unwrap(ps.result).v
               len == Headers_get(r.headers, Content_Length)
           IN  len # None => ByteLen(r.body) <= parse_usize(Unwrap(len)).v

\* C29: without a Content-Length header, Request::parse does not read in its
\* body loop and returns an empty body, and Response::parse returns only at the
\* end of the stream, with every byte that followed the delimiter as the body.
C29_NoContentLength ==
    /\ (ps.pc = "body_loop" /\ ps.kind = "request"
            /\ Headers_get(Unwrap(ps.head).headers, Content_Length) = None)
        => ~BodyLoopCondition(ps)
    /\ (Returned("request") /\ Unwrap(ps.result).ok
            /\ Headers_get(Unwrap(ps.result).v.headers, Content_Length) = None)
        => Unwrap(ps.result).v.body = <<>>
    /\ (Returned("response") /\ Unwrap(ps.result).ok
            /\ Headers_get(Unwrap(ps.result).v.headers, Content_Length) = None)
        => /\ AtEof(ps)
           /\ Unwrap(ps.result).v.body = BodyOf(ps.msg)

\* C30: a message that is a start line followed at once by the blank line, once
\* it has been read whole, parses Ok into a message with no headers that is
\* serialized to the same bytes again.
C30_EmptyHeaders ==
    (ps.pc = "done" /\ ps.msg \in {Req_NoHeaders, Res_NoHeaders} /\ ~ps.io_error
        /\ Contains(ps.buf, delim))
    => /\ Unwrap(ps.result).ok
       /\ Unwrap(ps.result).v.headers = Headers_new
       /\ Message_fmt(ps.kind, Unwrap(ps.result).v) = ps.msg

\* C31: a parse whose accumulated bytes hold an invalid byte before the header
\* delimiter returns an error, BadRequest on the request side, and so does a
\* parse that read an invalid byte in its body loop; no message is returned in
\* which the byte was replaced.
C31_InvalidUtf8 ==
    (ps.pc = "done" /\ ~ps.io_error /\ Contains(ps.buf, delim))
    => LET head == Unwrap(split_once(ps.buf, delim))[1]
           r == Unwrap(ps.result)
       IN  /\ ~ValidUtf8(head) => ~r.ok /\ (ps.kind = "request" => r.e = BadRequest)
           /\ (ValidUtf8(ps.buf) /\ ~ValidUtf8(ps.msg) /\ ps.src = <<>>) => ~r.ok

\* C36: when the header-read loop has stopped because its condition became
\* false, and not on a read of 0 bytes, the accumulated bytes contain CRLFCRLF.
C36_LoopStopsOnDelimiter ==
    (ps.pc = "parse_head" /\ ~HeaderLoopCondition(ps)) => Contains(ps.buf, delim)

\* C15: a response whose status code is no member of StatusCode (299), once its
\* head has been read whole, parses Ok and is serialized again with the code 299.
C15_UnknownCodeKept ==
    (ps.pc = "done" /\ ps.msg = Res_Unknown /\ Contains(ps.buf, delim))
        => /\ Unwrap(ps.result).ok
           /\ starts_with(Response_fmt(Unwrap(ps.result).v), <<"H",SP,"2","9","9",SP>>)

\* C17: a response whose status line ends with the space after the status code,
\* once its head has been read whole, parses Ok with an empty status message and
\* is serialized again to the bytes of the stream, the trailing space included.
C17_EmptyStatusMessage ==
    (ps.pc = "done" /\ ps.msg = Res_NoMessage /\ Contains(ps.buf, delim))
        => /\ Unwrap(ps.result).ok
           /\ Unwrap(ps.result).v.status_message = <<>>
           /\ Response_fmt(Unwrap(ps.result).v) = Res_NoMessage

\* The status line "H 200 " was read in several pieces and parsed.
C17_Witness ==
    /\ ps.pc = "done" /\ ps.msg = Res_NoMessage /\ ps.short > 0
    /\ Unwrap(ps.result).ok
    /\ Unwrap(ps.result).v.status_message = <<>>
    /\ SubSeq(Response_fmt(Unwrap(ps.result).v), 1, 8) = <<"H",SP,"2","0","0",SP,CR,LF>>

\* C18: Request::parse fails on every malformed request (no header delimiter,
\* unparseable start line, header line without a colon, non-numeric
\* Content-Length), and whenever it fails with no read having failed, the status
\* it returns is a 4xx one, never a 5xx one or Unknown.
C18_MalformedIs4xx ==
    Returned("request")
        => /\ ps.msg \in MalformedRequests => ~Unwrap(ps.result).ok
           /\ ~Unwrap(ps.result).ok => Unwrap(ps.result).e \in 400..499

\* The request with the Content-Length "x" was rejected with 400.
C18_Witness ==
    /\ Returned("request") /\ ps.msg = Req_BadLength /\ Contains(ps.buf, delim)
    /\ ~Unwrap(ps.result).ok
    /\ Unwrap(ps.result).e = BadRequest

\* The whitespace-separated tokens of the first line of a stream.
StartLine(stream) == split_whitespace(Unwrap(split_once(stream, CRLF))[1])

\* C19: once the head of a request has been read whole, a start line without a
\* token is answered 400, one whose first token is no known method 405 (also
\* when target and version are missing too), and one with a known method but
\* without target or without version 400.
C19_StartLine ==
    (Returned("request") /\ Contains(ps.buf, delim))
        => LET head == StartLine(ps.msg)
               r == Unwrap(ps.result)
           IN  IF Len(head) = 0 THEN ~r.ok /\ r.e = BadRequest
               ELSE IF Method_parse(head[1]) = None THEN ~r.ok /\ r.e = MethodNotAllowed
               ELSE Len(head) < 3 => ~r.ok /\ r.e = BadRequest

\* The start line "FOO", with neither target nor version, was answered 405.
C19_Witness ==
    /\ Returned("request") /\ ps.msg = Req_BadMethodOnly /\ Contains(ps.buf, delim)
    /\ ~Unwrap(ps.result).ok
    /\ Unwrap(ps.result).e = MethodNotAllowed

-----------------------------------------------------------------------------
(* Properties of Headers (SpecLib) *)

\* The insert calls i and j name the same header, case-insensitively.
SameName(ins, i, j) == to_lowercase(ins[i][1]) = to_lowercase(ins[j][1])

\* C13: for every insert(N, V) made on the Headers value, directly or by
\* Headers::parse, that no later insert of the same name has overwritten, get(N),
\* get(upper(N)) and get(lower(N)) all return V.
C13_CaseInsensitiveGet ==
    lib.kind = "headers" =>
        \A i \in 1..Len(lib.inserted) :
            (\A j \in (i + 1)..Len(lib.inserted) : ~SameName(lib.inserted, i, j))
            => LET N == lib.inserted[i][1]
                   V == lib.inserted[i][2]
               IN  /\ Headers_get(lib.headers, N) = Some(V)
                   /\ Headers_get(lib.headers, to_uppercase(N)) = Some(V)
                   /\ Headers_get(lib.headers, to_lowercase(N)) = Some(V)

\* A name inserted in mixed case is found under a casing that was never inserted.
C13_Witness ==
    /\ lib.kind = "headers"
    /\ lib.inserted = <<<<<<"A","b">>, <<"x">>>>>>
    /\ Headers_get(lib.headers, <<"A","B">>) = Some(<<"x">>)

\* What the serialization of the inserts ins[i..] should list: each name at its
\* first insert, in that casing, with the value of its last insert.
RECURSIVE ExpectedHeaders(_, _)
ExpectedHeaders(ins, i) ==
    IF i > Len(ins) THEN <<>>
    ELSE LET first == \A j \in 1..(i - 1) : ~SameName(ins, i, j)
             last == CHOOSE j \in i..Len(ins) :
                        /\ SameName(ins, i, j)
                        /\ \A k \in (j + 1)..Len(ins) : ~SameName(ins, i, k)
         IN  (IF first THEN ins[i][1] \o <<":", SP>> \o ins[last][2] \o CRLF ELSE <<>>)
             \o ExpectedHeaders(ins, i + 1)

\* C14: after any sequence of insert calls, the serialization lists each name
\* once, at the position and in the casing of its first insert, with the value of
\* its most recent case-insensitive insert.
C14_InsertionOrder ==
    lib.kind = "headers" => Headers_fmt(lib.headers) = ExpectedHeaders(lib.inserted, 1)

\* A and B were inserted and A was overwritten under another casing: A stays
\* first, in its first casing, with the new value.
C14_Witness ==
    /\ lib.kind = "headers"
    /\ lib.inserted = <<<<<<"A">>, <<"x">>>>, <<<<"B">>, <<"x">>>>, <<<<"a">>, <<"y">>>>>>
    /\ Headers_fmt(lib.headers) = <<"A",":",SP,"y",CR,LF,"B",":",SP,"x",CR,LF>>

\* order holds no name twice, in whatever casing, and holds exactly the names
\* that map has a value for.
OrderMatchesMap(h) ==
    /\ \A i, j \in 1..Len(h.order) :
            to_lowercase(h.order[i].original) = to_lowercase(h.order[j].original) => i = j
    /\ {to_lowercase(h.order[i].original) : i \in 1..Len(h.order)} = DOMAIN h.map

\* C37: after any sequence of Headers::insert calls, and after Headers::parse,
\* the order list names no header twice case-insensitively and names exactly
\* the keys of the value map, so that Display finds a value for every name.
C37_OrderMatchesMap ==
    /\ lib.kind = "headers" => OrderMatchesMap(lib.headers)
    /\ (lib.kind = "block" /\ lib.parsed # None /\ Unwrap(lib.parsed).ok)
        => OrderMatchesMap(Unwrap(lib.parsed).v)

\* A, a and B were inserted: order names two headers, map has two values.
C37_Witness ==
    /\ lib.kind = "headers"
    /\ lib.inserted = <<<<<<"A">>, <<"x">>>>, <<<<"a">>, <<"y">>>>, <<<<"B">>, <<"x">>>>>>
    /\ Len(lib.headers.order) = 2
    /\ DOMAIN lib.headers.map = {<<"a">>, <<"b">>}

\* The position of the first ":" of a line that has one.
FirstColon(line) ==
    CHOOSE k \in 1..Len(line) : line[k] = ":" /\ \A j \in 1..(k - 1) : line[j] # ":"

\* The part of s between its leading and its trailing whitespace.
Unpadded(s) ==
    CHOOSE v \in {SubSeq(s, i, j) : i \in 1..(Len(s) + 1), j \in 0..Len(s)} :
        /\ \E a, b \in 0..Len(s) :
                /\ a + Len(v) + b = Len(s)
                /\ SubSeq(s, a + 1, a + Len(v)) = v
                /\ \A i \in (1..a) \cup ((Len(s) - b + 1)..Len(s)) : IsWhitespace(s[i])
        /\ v # <<>> => ~IsWhitespace(v[1]) /\ ~IsWhitespace(v[Len(v)])

\* The <<name, value>> of each line: the name is everything before the first
\* ":", unchanged, the value everything after it, without its padding.
PairsOf(lines) ==
    [i \in 1..Len(lines) |->
        <<SubSeq(lines[i], 1, FirstColon(lines[i]) - 1),
          Unpadded(SubSeq(lines[i], FirstColon(lines[i]) + 1, Len(lines[i])))>>]

\* C28: Headers::parse of a block fails with Bad Request when one of the lines
\* between its CRLFs has no ":"; otherwise it is Ok, each name is the text of a
\* line before its first ":" and keeps its padding, each value the text after
\* that ":" without its padding, and the serialization lists "Name: value CRLF"
\* per name in the order of the lines.
C28_ParseHeaderBlock ==
    (lib.kind = "block" /\ lib.parsed # None)
    => LET lines == split(lib.text, CRLF)
           r == Unwrap(lib.parsed)
       IN  IF \E i \in 1..Len(lines) : \A k \in 1..Len(lines[i]) : lines[i][k] # ":"
           THEN r = Err(BadRequest)
           ELSE /\ r.ok
                /\ Headers_fmt(r.v) = ExpectedHeaders(PairsOf(lines), 1)
                /\ \A i \in 1..Len(lines) :
                        Headers_get(r.v, PairsOf(lines)[i][1]) # None

\* The block with "Host: g:80" and a padded name and value was parsed: the later
\* colon is in the value, the name keeps its spaces, the value lost them.
C28_Witness ==
    /\ lib.kind = "block"
    /\ lib.parsed # None
    /\ Unwrap(lib.parsed).ok
    /\ Headers_get(Unwrap(lib.parsed).v, <<"H","o","s","t">>) = Some(<<"g",":","8","0">>)
    /\ Headers_fmt(Unwrap(lib.parsed).v) = <<"H","o","s","t",":",SP,"g",":","8","0",CR,LF,SP,"B",SP,":",SP,"y",CR,LF>>

-----------------------------------------------------------------------------
(* Properties of the status table (SpecLib) *)

\* C16: the decimal string of every member of StatusCode parses to that member,
\* with both parsers, and re-serializes as the same number; the unrecognized
\* result (Unknown, None) is returned only for the string of no member.
C16_StatusTable ==
    (lib.kind = "status" /\ lib.code # <<>>)
    => IF \E n \in StatusCodes : Decimal(n) = lib.code
       THEN LET n == CHOOSE n \in StatusCodes : Decimal(n) = lib.code
            IN  /\ lib.member = n
                /\ lib.parsed = Some(n)
                /\ lib.emitted = lib.code
       ELSE lib.member = Unknown /\ lib.parsed = None

-----------------------------------------------------------------------------
(* Properties of RequestBuilder (SpecLib) *)

\* The positions of the calls of f.
CallsOf(calls, f) == {i \in 1..Len(calls) : calls[i].f = f}

\* The argument of the last call of f, if there was one.
LastArg(calls, f) ==
    IF CallsOf(calls, f) = {} THEN None
    ELSE Some(calls[CHOOSE i \in CallsOf(calls, f) : \A j \in CallsOf(calls, f) : j <= i].arg)

\* The header inserts in force: those of the last add_headers, and the add_header
\* calls after it.
RECURSIVE InsertsOf(_, _)
InsertsOf(calls, acc) ==
    IF calls = <<>> THEN acc
    ELSE InsertsOf(Tail(calls),
                   IF calls[1].f = "add_headers" THEN calls[1].arg
                   ELSE IF calls[1].f = "add_header" THEN Append(acc, calls[1].arg)
                   ELSE acc)

\* C20: build fails with "missing method" when no method was set, with "missing
\* resource" when a method but no resource was set, and otherwise succeeds with
\* the fields that were set, the version "HTTP/1.1", no headers and an empty body
\* for those that were not, and the headers in the order they were added.
C20_Build ==
    (lib.kind = "builder" /\ lib.built # None)
    => LET r == Unwrap(lib.built)
           method == LastArg(lib.calls, "add_method")
           resource == LastArg(lib.calls, "add_resource")
           version == LastArg(lib.calls, "add_version")
           body == LastArg(lib.calls, "add_body")
       IN  IF method = None THEN ~r.ok /\ r.e = "missing method"
           ELSE IF resource = None THEN ~r.ok /\ r.e = "missing resource"
           ELSE /\ r.ok
                /\ r.v.method = Unwrap(method)[1]
                /\ r.v.resource = Unwrap(resource)
                /\ r.v.version = (IF version = None THEN HTTP11 ELSE Unwrap(version))
                /\ r.v.body = (IF body = None THEN <<>> ELSE Unwrap(body))
                /\ Headers_fmt(r.v.headers) = ExpectedHeaders(InsertsOf(lib.calls, <<>>), 1)

\* A request built from a method, a resource and two headers, with the defaults.
C20_Witness ==
    /\ lib.kind = "builder"
    /\ lib.built # None
    /\ lib.calls = <<[f |-> "add_method", arg |-> <<"GET">>],
                     [f |-> "add_resource", arg |-> <<"/">>],
                     [f |-> "add_header", arg |-> <<<<"B">>, <<"y">>>>],
                     [f |-> "add_header", arg |-> <<<<"A">>, <<"x">>>>]>>
    /\ Unwrap(lib.built).ok
    /\ Request_fmt(Unwrap(lib.built).v)
       = <<"G","E","T",SP,"/",SP,"H","T","T","P","/","1",".","1",CR,LF,
           "B",":",SP,"y",CR,LF,"A",":",SP,"x",CR,LF,CR,LF>>

-----------------------------------------------------------------------------
(* Properties of Args (SpecLib) *)

\* C27: the parse of an argument list that holds one recognized flag and nothing
\* else returns Ok with the field of that flag set and every other field at its
\* default, the port at 8080.
C27_SingleFlag ==
    (lib.kind = "args" /\ lib.result # None /\ Len(lib.argv) = 2 /\ lib.argv[2] \in Flags)
    => LET flag == lib.argv[2]
           r == Unwrap(lib.result)
       IN  /\ r.ok
           /\ r.v.help = (flag \in {<<"-","-","h","e","l","p">>, <<"-","h">>})
           /\ r.v.version = (flag \in {<<"-","-","v","e","r","s","i","o","n">>, <<"-","v">>})
           /\ r.v.port = (IF flag = <<"-","-","p","o","r","t","=","9","0","0","0">> THEN 9000
                          ELSE IF flag = <<"-","p","=","7","0","0","0">> THEN 7000 ELSE 8080)

====
